---- MODULE Spec2Model ----
(***************************************************************************)
(* Hash equi-join (physical_plan/hash_join.rs) and grouped row-hash        *)
(* aggregation (physical_plan/aggregates/row_hash.rs).                     *)
(*                                                                         *)
(* Row indices are 0-based as in the source; element i of an array is      *)
(* arr[i + 1].                                                             *)
(***************************************************************************)
EXTENDS Integers, Sequences, FiniteSets, TLC

VARIABLES
    \* ---- equal_rows called on its own (SpecEq)
    eq_left, eq_right, eq_args, eq_out,
    \* ---- create_hashes called on its own: the calls to make, their results (SpecHash)
    h_calls, h_out,
    \* ---- HashJoinExec::try_new called on its own: its arguments, the plan's schema (SpecSchema)
    try_new_args, schema_out,
    \* ---- the HashJoinStreams of the partitions over one build side (SpecParts)
    c_pc, c_visited, c_exhausted, c_items, c_out,
    \* ---- what ArrayData::is_null reads past the end of an array's validity bitmap
    pad_is_null,
    \* ---- HashJoinExec / HashJoinStream, one partition (SpecJoin)
    join_type, random_state, jphase, left_batches, left_data,
    visited_left_side, is_exhausted, right_ended, right_items, out,
    \* ---- HashJoinExec::execute, CollectLeft, several partitions (SpecExec)
    x_pc, x_lock, build_side, x_acc, x_left_data, x_arcs, x_left_runs,
    \* ---- GroupedHashAggregateStreamV2 (SpecAgg)
    mode, batch_size, a_hash, map, map_capacity, group_states, gs_capacity, used,
    row_group_skip_position, in_ended, in_items, a_phase, a_out, a_clean, a_seen,
    \* ---- the memory manager's side of the aggregator's consumer
    consumer_live, mm_held,
    \* ---- ShortLivedMemoryPool called on its own (SpecPool)
    pool, pool_open, pool_n, pool_calls,
    \* ---- Partial aggregators feeding a Final one (SpecModes)
    m_whole, m_input,
    \* ---- what the MemoryConsumer::spill calls answered, in order (SpecSpill)
    spill_result,
    \* ---- the stream's future, suspended and dropped (SpecCancel)
    s_pc, s_id, mm_log

eqVars   == <<eq_left, eq_right, eq_args, eq_out, h_calls, h_out,
              try_new_args, schema_out,
              c_pc, c_visited, c_exhausted, c_items, c_out>>
joinVars == <<join_type, random_state, jphase, left_batches, left_data,
              visited_left_side, is_exhausted, right_ended, right_items, out>>
execVars == <<x_pc, x_lock, build_side, x_acc, x_left_data, x_arcs, x_left_runs>>
aggVars  == <<mode, m_whole, m_input, batch_size, a_hash, map, map_capacity, group_states, gs_capacity,
              used, row_group_skip_position, in_ended, in_items, a_phase, a_out,
              a_clean, a_seen, consumer_live, mm_held,
              pool, pool_open, pool_n, pool_calls, spill_result, s_pc, s_id, mm_log>>
vars     == <<eqVars, pad_is_null, joinVars, execVars, aggVars>>

(***************************************************************************)
(* Bounds                                                                  *)
(***************************************************************************)
MaxVal        == 1   \* key values are 0..MaxVal
MaxHash       == 1   \* hash values are 0..MaxHash
MaxEqCols     == 2   \* join columns handed to equal_rows in SpecEq
MaxEqRows     == 2   \* rows per array in SpecEq
MaxLeftItems  == 2   \* batches the left input yields (SpecJoin)
MaxBuildItems == 1   \* batches the left input yields (SpecExec)
MaxLeftRows   == 1   \* rows per left batch
MaxRightItems == 2   \* items (batches or errors) the right input yields
MaxRightRows  == 1   \* rows per right batch
NumParts      == 2   \* partitions that call execute

\* u64: four 16-bit limbs, the least significant first
Limb == 65536
u64(n) == <<n % Limb, (n \div Limb) % Limb, 0, 0>>

\* u64::wrapping_add
wrapping_add(a, b) ==
    LET s1 == a[1] + b[1]
        s2 == a[2] + b[2] + (s1 \div Limb)
        s3 == a[3] + b[3] + (s2 \div Limb)
        s4 == a[4] + b[4] + (s3 \div Limb)
    IN  <<s1 % Limb, s2 % Limb, s3 % Limb, s4 % Limb>>

\* u64::wrapping_mul by a factor below 2^15
wrapping_mul(a, m) ==
    LET p1 == a[1] * m
        p2 == a[2] * m + (p1 \div Limb)
        p3 == a[3] * m + (p2 \div Limb)
        p4 == a[4] * m + (p3 \div Limb)
    IN  <<p1 % Limb, p2 % Limb, p3 % Limb, p4 % Limb>>

Vals   == 0..MaxVal
Hashes == {u64(h) : h \in 0..MaxHash}

\* two seeds: every key in one bucket, keys spread over the hash values
SingleBucket == [v \in Vals |-> u64(0)]
SpreadHash   == [v \in Vals |-> u64(v % (MaxHash + 1))]

\* u64 row index that UInt64Builder::append_null leaves invalid
NullIdx == -1

(***************************************************************************)
(* Arrow arrays: a data type and, per slot, a validity bit and the value   *)
(* held by the values buffer (a null slot still holds some value).          *)
(***************************************************************************)
Cell      == [null : BOOLEAN, val : Vals]
DataTypes == {"Int32", "Float64", "Null"}

ArraysOfLen(n) == [1..n -> Cell]

\* a NullArray has no valid slot; of a Float64 array, which equal_rows never
\* reads, one representative is enough
ArraysOfType(t, n) ==
    CASE t = "Null"    -> {[k \in 1..n |-> [null |-> TRUE, val |-> 0]]}
      [] t = "Float64" -> {[k \in 1..n |-> [null |-> FALSE, val |-> 0]]}
      [] OTHER         -> ArraysOfLen(n)

ColumnsOf(t, n) == {[type |-> t, data |-> d] : d \in ArraysOfType(t, n)}

Range(s) == {s[k] : k \in 1..Len(s)}

num_rows(batch) == IF Len(batch) = 0 THEN 0 ELSE Len(batch[1].data)

\* Array::is_null(index): the validity bit of the slot; past the end of the
\* array the bit is whatever the bitmap's padding holds.
is_null(array, index) ==
    IF index < Len(array.data) THEN array.data[index + 1].null ELSE pad_is_null

\* Array::value(index): the values buffer, whether or not the slot is valid
value(array, index) == array.data[index + 1].val

(***************************************************************************)
(* equal_rows_elem!, equal_rows                                            *)
(***************************************************************************)
equal_rows_elem_symmetric(l, r, left, right) ==
    IF ~is_null(l, left) /\ ~is_null(r, right)
    THEN value(l, left) = value(r, right)
    ELSE FALSE

\* the macro tests left_array.is_null for BOTH row numbers (line 745)
equal_rows_elem(l, r, left, right) ==
    IF ~is_null(l, left) /\ ~is_null(l, right)
    THEN value(l, left) = value(r, right)
    ELSE FALSE

\* Iterator::all over the zipped columns: stops at the first false; an
\* unsupported type sets err and yields false.  Result: "true", "false", "err".
RECURSIVE equal_rows_from(_, _, _, _, _)
equal_rows_from(k, left, right, left_arrays, right_arrays) ==
    IF k > Len(left_arrays) \/ k > Len(right_arrays) THEN "true"
    ELSE LET l == left_arrays[k]
             r == right_arrays[k]
         IN  CASE l.type = "Null"  -> equal_rows_from(k + 1, left, right, left_arrays, right_arrays)
               [] l.type = "Int32" ->
                    IF equal_rows_elem(l, r, left, right)
                    THEN equal_rows_from(k + 1, left, right, left_arrays, right_arrays)
                    ELSE "false"
               [] OTHER -> "err"

equal_rows(left, right, left_arrays, right_arrays) ==
    equal_rows_from(1, left, right, left_arrays, right_arrays)

(***************************************************************************)
(* SpecEq: equal_rows applied to arbitrary arrays and row numbers          *)
(***************************************************************************)
EqBatches(types, n) ==
    {b \in [1..Len(types) -> UNION {ColumnsOf(t, n) : t \in DataTypes}] :
        \A k \in 1..Len(types) : b[k].type = types[k]}

EqTypeLists == UNION {[1..c -> DataTypes] : c \in 1..MaxEqCols}

StreamIdle ==
    /\ jphase = "idle" /\ left_batches = <<>> /\ left_data = <<>>
    /\ visited_left_side = <<>> /\ is_exhausted = FALSE
    /\ right_ended = FALSE /\ right_items = 0 /\ out = <<>>

JoinIdle ==
    /\ join_type = "Inner" /\ random_state = SingleBucket
    /\ StreamIdle

ExecIdle ==
    /\ x_pc = <<>> /\ x_lock = 0 /\ build_side = 0 /\ x_acc = <<>>
    /\ x_left_data = <<>> /\ x_arcs = <<>> /\ x_left_runs = 0

AggIdle ==
    /\ mode = "Partial" /\ m_whole = <<>> /\ m_input = <<>>
    /\ batch_size = 1 /\ a_hash = <<>> /\ map = <<>> /\ map_capacity = 0
    /\ group_states = <<>> /\ gs_capacity = 0 /\ used = 0
    /\ row_group_skip_position = 0
    /\ in_ended = FALSE /\ in_items = 0 /\ a_phase = "idle" /\ a_out = <<>>
    /\ a_clean = TRUE /\ a_seen = <<>>
    /\ consumer_live = FALSE /\ mm_held = 0
    /\ pool = <<>> /\ pool_open = FALSE /\ pool_n = 0 /\ pool_calls = 0
    /\ spill_result = <<>> /\ s_pc = "idle" /\ s_id = 0 /\ mm_log = <<>>

SchemaIdle == try_new_args = <<>> /\ schema_out = <<>>

partVars == <<c_pc, c_visited, c_exhausted, c_items, c_out>>
PartsIdle ==
    /\ c_pc = <<>> /\ c_visited = <<>> /\ c_exhausted = <<>>
    /\ c_items = <<>> /\ c_out = <<>>

EqIdle ==
    /\ eq_left = <<>> /\ eq_right = <<>> /\ eq_args = <<0, 0>> /\ eq_out = "none"
    /\ h_calls = <<>> /\ h_out = <<>>
    /\ SchemaIdle /\ PartsIdle

InitEq ==
    /\ pad_is_null \in BOOLEAN
    /\ \E types \in EqTypeLists, nl \in 1..MaxEqRows, nr \in 1..MaxEqRows :
          /\ eq_left \in EqBatches(types, nl)
          /\ eq_right \in EqBatches(types, nr)
          /\ eq_args \in (0..(nl - 1)) \X (0..(nr - 1))
    /\ eq_out = "none"
    /\ h_calls = <<>> /\ h_out = <<>>
    /\ SchemaIdle /\ PartsIdle
    /\ JoinIdle /\ ExecIdle /\ AggIdle

CallEqualRows ==
    /\ eq_out = "none"
    /\ eq_out' = equal_rows(eq_args[1], eq_args[2], eq_left, eq_right)
    /\ UNCHANGED <<eq_left, eq_right, eq_args, h_calls, h_out, try_new_args, schema_out, partVars, pad_is_null, joinVars,
                   execVars, aggVars>>

NextEq == CallEqualRows

SpecEq == InitEq /\ [][NextEq]_vars

(***************************************************************************)
(* create_hashes, update_hash, the build side                              *)
(***************************************************************************)
\* Result<T>: Ok(v) or Err(_)
Ok(v) == [ok |-> TRUE, v |-> v]
Err   == [ok |-> FALSE, v |-> <<>>]

\* combine_hashes: (17 * 37u64).wrapping_add(l).wrapping_mul(37).wrapping_add(r)
combine_hashes_adds_first(l, r) ==
    wrapping_mul(wrapping_add(wrapping_add(u64(17 * 37), l), r), 37)
combine_hashes(l, r) ==
    wrapping_add(wrapping_mul(wrapping_add(u64(17 * 37), l), 37), r)

\* hash_array!, hash_array_primitive!, hash_array_float!: a null slot leaves
\* the buffer entry as it is; hf stands for get_hash(value, random_state)
hash_array_reads_row_above(hf, column, hashes, multi_col) ==
    [i \in 1..Len(hashes) |->
        IF i > Len(column.data) \/ column.data[i].null THEN hashes[i]
        ELSE IF multi_col
        THEN combine_hashes(hf[column.data[i].val], hashes[IF i > 1 THEN i - 1 ELSE i])
        ELSE hf[column.data[i].val]]
hash_array(hf, column, hashes, multi_col) ==
    [i \in 1..Len(hashes) |->
        IF i > Len(column.data) \/ column.data[i].null THEN hashes[i]
        ELSE IF multi_col THEN combine_hashes(hf[column.data[i].val], hashes[i])
        ELSE hf[column.data[i].val]]

RECURSIVE create_hashes_from(_, _, _, _)
create_hashes_from(k, hf, arrays, hashes_buffer) ==
    IF k > Len(arrays) THEN Ok(hashes_buffer)
    ELSE IF arrays[k].type \notin {"Int32", "Float64"} THEN Err
    ELSE create_hashes_from(k + 1, hf, arrays,
                            hash_array(hf, arrays[k], hashes_buffer, Len(arrays) > 1))

create_hashes(hf, arrays, hashes_buffer) ==
    create_hashes_from(1, hf, arrays, hashes_buffer)

\* col(name).evaluate(batch) for every name of `on`
keys_of(on, batch) == [k \in 1..Len(on) |-> batch[on[k]]]

ZeroBuffer(n) == [i \in 1..n |-> u64(0)]

\* the insertion loop of update_hash, from row `row` on
RECURSIVE insert_rows(_, _, _, _)
insert_rows(hash, hash_values, row, offset) ==
    IF row >= Len(hash_values) THEN hash
    ELSE LET h == hash_values[row + 1]
             next == IF h \in DOMAIN hash
                     THEN [hash EXCEPT ![h] = Append(@, row + offset)]
                     ELSE [x \in DOMAIN hash \cup {h} |->
                             IF x = h THEN <<row + offset>> ELSE hash[x]]
         IN  insert_rows(next, hash_values, row + 1, offset)

update_hash_ignores_offset(on, batch, hash, offset, hf) ==
    LET hash_values == create_hashes(hf, keys_of(on, batch), ZeroBuffer(num_rows(batch)))
    IN  IF ~hash_values.ok THEN Err
        ELSE Ok(insert_rows(hash, hash_values.v, 0, 0))
update_hash_inserts_nothing(on, batch, hash, offset, hf) ==
    LET hash_values == create_hashes(hf, keys_of(on, batch), ZeroBuffer(num_rows(batch)))
    IN  IF ~hash_values.ok THEN Err
        ELSE Ok(hash)
update_hash(on, batch, hash, offset, hf) ==
    LET hash_values == create_hashes(hf, keys_of(on, batch), ZeroBuffer(num_rows(batch)))
    IN  IF ~hash_values.ok THEN Err
        ELSE Ok(insert_rows(hash, hash_values.v, 0, offset))

EmptyMap == [x \in {} |-> <<>>]

\* the loop over the collected batches in execute (lines 338-350)
RECURSIVE build_hashmap(_, _, _, _, _, _)
build_hashmap(on, batches, k, hashmap, offset, hf) ==
    IF k > Len(batches) THEN Ok(hashmap)
    ELSE LET h == update_hash(on, batches[k], hashmap, offset, hf)
         IN  IF ~h.ok THEN Err
             ELSE build_hashmap(on, batches, k + 1, h.v, offset + num_rows(batches[k]), hf)

\* concat_batches: the columns of the batches, one after the other
RECURSIVE concat_data(_, _, _)
concat_data(batches, c, k) ==
    IF k > Len(batches) THEN <<>>
    ELSE batches[k][c].data \o concat_data(batches, c, k + 1)

concat_batches(schema, batches) ==
    [c \in 1..Len(schema) |-> [type |-> schema[c], data |-> concat_data(batches, c, 1)]]

(***************************************************************************)
(* build_join_indexes                                                      *)
(***************************************************************************)
\* the candidates of one right row, from candidate k of the bucket on
RECURSIVE probe_bucket(_, _, _, _, _, _)
probe_bucket(indices, k, row, join_type_, left_join_values, keys_values) ==
    IF k > Len(indices) THEN Ok(<<>>)
    ELSE LET i    == indices[k]
             e    == equal_rows(i, row, left_join_values, keys_values)
             rest == probe_bucket(indices, k + 1, row, join_type_, left_join_values, keys_values)
         IN  IF e = "err" \/ ~rest.ok THEN Err
             ELSE IF e = "true" THEN Ok(<<<<i, row>>>> \o rest.v)
             ELSE IF join_type_ \in {"Right", "Full"} THEN Ok(<<<<NullIdx, row>>>> \o rest.v)
             ELSE rest

RECURSIVE probe_rows(_, _, _, _, _, _)
probe_rows(left, hash_values, row, join_type_, left_join_values, keys_values) ==
    IF row >= Len(hash_values) THEN Ok(<<>>)
    ELSE LET h    == hash_values[row + 1]
             here == IF h \in DOMAIN left
                     THEN probe_bucket(left[h], 1, row, join_type_, left_join_values, keys_values)
                     ELSE IF join_type_ \in {"Right", "Full"} THEN Ok(<<<<NullIdx, row>>>>)
                     ELSE Ok(<<>>)
             rest == probe_rows(left, hash_values, row + 1, join_type_, left_join_values, keys_values)
         IN  IF ~here.ok \/ ~rest.ok THEN Err ELSE Ok(here.v \o rest.v)

\* result: Ok(the sequence of <<left index, right index>>) or Err
build_join_indexes(left_data_, right, join_type_, left_on, right_on, hf) ==
    LET keys_values      == keys_of(right_on, right)
        left_join_values == keys_of(left_on, left_data_.batch)
        hash_values      == create_hashes(hf, keys_values, ZeroBuffer(Len(keys_values[1].data)))
    IN  IF ~hash_values.ok THEN Err
        ELSE probe_rows(left_data_.map, hash_values.v, 0, join_type_, left_join_values, keys_values)

\* produce_unmatched: the build rows whose visited flag is false, in order
unmatched_indices(visited) ==
    LET RECURSIVE go(_)
        go(k) == IF k > Len(visited) THEN <<>>
                 ELSE IF ~visited[k] THEN <<k - 1>> \o go(k + 1) ELSE go(k + 1)
    IN  go(1)

(***************************************************************************)
(* SpecJoin: execute (Partitioned mode) and HashJoinStream::poll_next      *)
(***************************************************************************)
JoinTypes  == {"Inner", "Left", "Right", "Full"}
JoinSchema == <<"Int32">>      \* both inputs: the join column
on_left    == <<1>>
on_right   == <<1>>
MaxEndPolls == 2               \* polls after the right input has ended

JoinBatches(maxRows) ==
    UNION {{<<c>> : c \in ColumnsOf("Int32", n)} : n \in 0..maxRows}

InitJoin ==
    /\ pad_is_null \in BOOLEAN
    /\ join_type \in JoinTypes
    /\ random_state \in [Vals -> Hashes]
    /\ jphase = "build"
    /\ left_batches = <<>>
    /\ left_data = <<>>
    /\ visited_left_side = <<>>
    /\ is_exhausted = FALSE
    /\ right_ended = FALSE
    /\ right_items = 0
    /\ out = <<>>
    /\ EqIdle /\ ExecIdle /\ AggIdle

joinFrame == <<eqVars, pad_is_null, execVars, aggVars, join_type, random_state>>

\* try_fold over the left stream: one more batch
LeftBatchFrom(batches) ==
    /\ jphase = "build"
    /\ Len(left_batches) < MaxLeftItems
    /\ \E batch \in batches : left_batches' = Append(left_batches, batch)
    /\ UNCHANGED <<joinFrame, jphase, left_data, visited_left_side, is_exhausted,
                   right_ended, right_items, out>>

LeftBatch == LeftBatchFrom(JoinBatches(MaxLeftRows))

\* the left stream yields an error: execute returns it
LeftErr ==
    /\ jphase = "build"
    /\ jphase' = "failed"
    /\ UNCHANGED <<joinFrame, left_batches, left_data, visited_left_side, is_exhausted,
                   right_ended, right_items, out>>

\* the left stream ends: index, concatenation, stream construction
LeftEndWith(schema) ==
    /\ jphase = "build"
    /\ LET hashmap == build_hashmap(on_left, left_batches, 1, EmptyMap, 0, random_state)
           single_batch == concat_batches(schema, left_batches)
       IN  IF ~hashmap.ok
           THEN /\ jphase' = "failed"
                /\ UNCHANGED <<left_data, visited_left_side>>
           ELSE /\ jphase' = "probe"
                /\ left_data' = [map |-> hashmap.v, batch |-> single_batch]
                /\ visited_left_side' =
                      IF join_type \in {"Left", "Full"}
                      THEN [k \in 1..num_rows(single_batch) |-> FALSE]
                      ELSE <<>>
    /\ UNCHANGED <<joinFrame, left_batches, is_exhausted, right_ended, right_items, out>>

LeftEnd == LeftEndWith(JoinSchema)

\* one item of the output stream, with the right-input item it answers:
\* kind: "batch", "err", "none"; src: "probe", "unmatched", "right"
Item(kind, src, pairs, batch, cause) ==
    [kind |-> kind, src |-> src, pairs |-> pairs, batch |-> batch, cause |-> cause]

\* poll_next, right yields Some(Ok(batch))
PollBatchFrom(batches) ==
    /\ jphase = "probe"
    /\ ~right_ended
    /\ right_items < MaxRightItems
    /\ \E batch \in batches :
          LET result == build_join_indexes(left_data, batch, join_type,
                                           on_left, on_right, random_state)
          IN  IF ~result.ok
              THEN /\ jphase' = "panicked"      \* build_batch unwraps
                   /\ UNCHANGED <<visited_left_side, out>>
              ELSE /\ jphase' = jphase
                   /\ visited_left_side' =
                         IF join_type \in {"Left", "Full"}
                         THEN [k \in 1..Len(visited_left_side) |->
                                 visited_left_side[k]
                                 \/ \E p \in 1..Len(result.v) : result.v[p][1] = k - 1]
                         ELSE visited_left_side
                   /\ out' = Append(out, Item("batch", "probe", result.v, batch, "batch"))
    /\ right_items' = right_items + 1
    /\ UNCHANGED <<joinFrame, left_batches, left_data, is_exhausted, right_ended>>

PollBatch == PollBatchFrom(JoinBatches(MaxRightRows))

\* the `other` arm of poll_next: Some(Err(_)) and None alike
OtherArm_clears_exhausted(other) ==
    IF join_type \in {"Left", "Full"} /\ ~is_exhausted
    THEN /\ out' = Append(out,
                Item("batch", "unmatched",
                     LET u == unmatched_indices(visited_left_side)
                     IN  [k \in 1..Len(u) |-> <<u[k], NullIdx>>],
                     <<>>, other))
         /\ is_exhausted' = TRUE
    ELSE /\ out' = Append(out, Item(other, "right", <<>>, <<>>, other))
         /\ is_exhausted' = FALSE
OtherArm(other) ==
    IF join_type \in {"Left", "Full"} /\ ~is_exhausted
    THEN /\ out' = Append(out,
                Item("batch", "unmatched",
                     LET u == unmatched_indices(visited_left_side)
                     IN  [k \in 1..Len(u) |-> <<u[k], NullIdx>>],
                     <<>>, other))
         /\ is_exhausted' = TRUE
    ELSE /\ out' = Append(out, Item(other, "right", <<>>, <<>>, other))
         /\ UNCHANGED is_exhausted

\* poll_next, right yields Some(Err(e))
PollErr ==
    /\ jphase = "probe"
    /\ ~right_ended
    /\ right_items < MaxRightItems
    /\ OtherArm("err")
    /\ right_items' = right_items + 1
    /\ UNCHANGED <<joinFrame, jphase, left_batches, left_data, visited_left_side, right_ended>>

NoneCount == Cardinality({k \in 1..Len(out) : out[k].kind = "none"})

\* poll_next, right yields None (and keeps doing so)
PollEnd ==
    /\ jphase = "probe"
    /\ NoneCount < MaxEndPolls
    /\ OtherArm("none")
    /\ right_ended' = TRUE
    /\ UNCHANGED <<joinFrame, jphase, left_batches, left_data, visited_left_side, right_items>>

NextJoin == LeftBatch \/ LeftErr \/ LeftEnd \/ PollBatch \/ PollErr \/ PollEnd

SpecJoin == InitJoin /\ [][NextJoin]_vars

(***************************************************************************)
(* The same stream on small inputs (SpecPoll): the actions of SpecJoin,     *)
(* with non-null keys, at most MaxPollItems items and MaxPollRows rows from  *)
(* each input, and the two seeds of SpecExec.                               *)
(***************************************************************************)
MaxPollItems == 1   \* items each input yields before it ends
MaxPollRows  == 1   \* rows each input yields in all

NonNullBatch(batch) ==
    \A c \in 1..Len(batch) : \A k \in 1..Len(batch[c].data) : ~batch[c].data[k].null

RECURSIVE rows_total(_, _)
rows_total(batches, k) ==
    IF k > Len(batches) THEN 0
    ELSE (IF batches[k] = <<>> THEN 0 ELSE num_rows(batches[k]))
         + rows_total(batches, k + 1)

PollInputs ==
    /\ Len(left_batches) <= MaxPollItems
    /\ right_items <= MaxPollItems
    /\ \A k \in 1..Len(left_batches) : NonNullBatch(left_batches[k])
    /\ \A k \in 1..Len(out) : NonNullBatch(out[k].batch)
    /\ rows_total(left_batches, 1) <= MaxPollRows
    /\ rows_total([k \in 1..Len(out) |-> out[k].batch], 1) <= MaxPollRows

InitPoll ==
    /\ InitJoin
    /\ pad_is_null = FALSE
    /\ random_state \in {SingleBucket, SpreadHash}

PollBatches == {b \in JoinBatches(MaxPollRows) : NonNullBatch(b)}

PollLeftBatch  == LeftBatchFrom(PollBatches) /\ PollInputs'
PollRightBatch == PollBatchFrom(PollBatches) /\ PollInputs'
PollRightErr   == PollErr /\ PollInputs'

NextPoll ==
    \/ PollLeftBatch \/ LeftErr \/ LeftEnd
    \/ PollRightBatch \/ PollRightErr \/ PollEnd

SpecPoll == InitPoll /\ [][NextPoll]_vars

(***************************************************************************)
(* Properties of the join                                                  *)
(***************************************************************************)
\* SQL equality of build row i and right row r on every join column
KeysEqual(lbatch, i, rbatch, r) ==
    \A k \in 1..Len(on_left) :
        LET lc == lbatch[on_left[k]].data[i + 1]
            rc == rbatch[on_right[k]].data[r + 1]
        IN  ~lc.null /\ ~rc.null /\ lc.val = rc.val

NaturalPairs(lbatch, rbatch) ==
    {p \in (0..(num_rows(lbatch) - 1)) \X (0..(num_rows(rbatch) - 1)) :
        KeysEqual(lbatch, p[1], rbatch, p[2])}

Count(seq, x) == Cardinality({k \in 1..Len(seq) : seq[k] = x})

ProbeItems == {k \in 1..Len(out) : out[k].src = "probe"}

\* C1: Inner join - the pairs of every probed batch are exactly the pairs
\* (i, r) whose join columns are non-null on both sides and equal, each once.
C1_InnerPairsAreNaturalJoin ==
    join_type = "Inner" =>
        \A k \in ProbeItems :
            /\ Range(out[k].pairs) = NaturalPairs(left_data.batch, out[k].batch)
            /\ \A p \in Range(out[k].pairs) : Count(out[k].pairs, p) = 1

\* the values a reader of the output sees: null, or the value of a valid slot
Visible(batch, idx) ==
    [c \in 1..Len(batch) |->
        IF idx = NullIdx \/ batch[c].data[idx + 1].null THEN NullIdx
        ELSE batch[c].data[idx + 1].val]

NullRow == [c \in 1..Len(JoinSchema) |-> NullIdx]

\* the output rows of one item (build_batch_from_indices, produce_unmatched)
RowsOf(lbatch, item_pairs, rbatch) ==
    [k \in 1..Len(item_pairs) |->
        <<Visible(lbatch, item_pairs[k][1]),
          IF item_pairs[k][2] = NullIdx THEN NullRow ELSE Visible(rbatch, item_pairs[k][2])>>]

SameBag(s, t) == \A x \in Range(s) \cup Range(t) : Count(s, x) = Count(t, x)

\* a hash without collisions: distinct values, and null (0), get distinct hashes
CollisionFree == [v \in Vals |-> u64(v + 1)]

\* the stream re-run on the same inputs with the collision-free hash
RefLeftData ==
    [map   |-> build_hashmap(on_left, left_batches, 1, EmptyMap, 0, CollisionFree).v,
     batch |-> left_data.batch]

RefPairs(k) ==
    build_join_indexes(RefLeftData, out[k].batch, join_type, on_left, on_right, CollisionFree).v

RefVisited(k) ==
    [i \in 1..num_rows(left_data.batch) |->
        \E j \in ProbeItems : j < k /\ \E p \in 1..Len(RefPairs(j)) : RefPairs(j)[p][1] = i - 1]

RefItemPairs(k) ==
    IF out[k].src = "probe" THEN RefPairs(k)
    ELSE LET u == unmatched_indices(RefVisited(k))
         IN  [n \in 1..Len(u) |-> <<u[n], NullIdx>>]

\* C2: with a hash that sends every key to one bucket, every output batch holds
\* the same rows as with a collision-free hash on the same inputs.
C2_OutputIndependentOfHash ==
    (jphase = "probe" /\ random_state = SingleBucket) =>
        \A k \in 1..Len(out) :
            out[k].kind = "batch" =>
                SameBag(RowsOf(left_data.batch, out[k].pairs, out[k].batch),
                        RowsOf(left_data.batch, RefItemPairs(k), out[k].batch))

AllPairs ==
    LET RECURSIVE cat(_)
        cat(k) == IF k > Len(out) THEN <<>> ELSE out[k].pairs \o cat(k + 1)
    IN  cat(1)

StreamEnded == \E k \in 1..Len(out) : out[k].kind = "none"

\* C3: Right/Full - a right row equal to no build row is in exactly one output
\* row, with a null left side; Left/Full - once the stream has ended, a build
\* row equal to no right row is in exactly one output row, with a null right side.
C3_UnmatchedExactlyOnce ==
    /\ join_type \in {"Right", "Full"} =>
          \A k \in ProbeItems : \A r \in 0..(num_rows(out[k].batch) - 1) :
              (\A i \in 0..(num_rows(left_data.batch) - 1) :
                    ~KeysEqual(left_data.batch, i, out[k].batch, r))
              => /\ Cardinality({p \in 1..Len(out[k].pairs) : out[k].pairs[p][2] = r}) = 1
                 /\ Count(out[k].pairs, <<NullIdx, r>>) = 1
    /\ (join_type \in {"Left", "Full"} /\ StreamEnded) =>
          \A i \in 0..(num_rows(left_data.batch) - 1) :
              (\A k \in ProbeItems : \A r \in 0..(num_rows(out[k].batch) - 1) :
                    ~KeysEqual(left_data.batch, i, out[k].batch, r))
              => /\ Cardinality({p \in 1..Len(AllPairs) : AllPairs[p][1] = i}) = 1
                 /\ Count(AllPairs, <<i, NullIdx>>) = 1

\* C4: equal_rows on Int32 columns - never true when a join column is null on
\* either side; true only if every column is valid on both sides and equal.
C4_EqualRowsNullNeverEqual ==
    (eq_out # "none" /\ \A k \in 1..Len(eq_left) : eq_left[k].type = "Int32") =>
        LET i == eq_args[1]
            j == eq_args[2]
            nullSomewhere == \E k \in 1..Len(eq_left) :
                                eq_left[k].data[i + 1].null \/ eq_right[k].data[j + 1].null
            allEqual == \A k \in 1..Len(eq_left) :
                            /\ ~eq_left[k].data[i + 1].null
                            /\ ~eq_right[k].data[j + 1].null
                            /\ eq_left[k].data[i + 1].val = eq_right[k].data[j + 1].val
        IN  /\ nullSomewhere => eq_out = "false"
            /\ eq_out = "true" => allEqual

\* the items the stream returned once the right input had ended
AfterEnd == SelectSeq(out, LAMBDA it : it.cause = "none")

\* build rows that no probed batch paired with a right row
NeverMatched ==
    {i \in 0..(num_rows(left_data.batch) - 1) :
        \A k \in ProbeItems : \A p \in 1..Len(out[k].pairs) : out[k].pairs[p][1] # i}

\* C5: Left/Full - after the right input has ended the stream returns one
\* batch, holding each never-matched build row once with a null right side,
\* and then end-of-stream; Inner/Right - it returns end-of-stream directly.
C5_TrailingUnmatchedBatch ==
    jphase = "probe" =>
        /\ join_type \in {"Left", "Full"} =>
              /\ Len(AfterEnd) >= 1 =>
                    /\ AfterEnd[1].kind = "batch" /\ AfterEnd[1].src = "unmatched"
                    /\ Range(AfterEnd[1].pairs) = {<<i, NullIdx>> : i \in NeverMatched}
                    /\ Len(AfterEnd[1].pairs) = Cardinality(NeverMatched)
              /\ \A k \in 2..Len(AfterEnd) : AfterEnd[k].kind = "none"
        /\ join_type \in {"Inner", "Right"} =>
              \A k \in 1..Len(AfterEnd) : AfterEnd[k].kind = "none"

\* C6: an error item of the right input comes out as an error item.
C6_RightErrorPropagates ==
    \A k \in 1..Len(out) : out[k].cause = "err" => out[k].kind = "err"

(***************************************************************************)
(* SpecExec: HashJoinExec::execute in CollectLeft mode, one call per       *)
(* partition, interleaved at the await points                              *)
(***************************************************************************)
Parts == 1..NumParts

\* build_side: 0 is None, n > 0 is Some(the Arc allocated n-th, x_arcs[n])
InitExec ==
    /\ pad_is_null = FALSE
    /\ join_type = "Inner"        \* plays no part before the stream exists
    /\ random_state \in {SingleBucket, SpreadHash}
    /\ StreamIdle
    /\ x_pc = [p \in Parts |-> "start"]
    /\ x_lock = 0
    /\ build_side = 0
    /\ x_acc = [p \in Parts |-> <<>>]
    /\ x_left_data = [p \in Parts |-> 0]
    /\ x_arcs = <<>>
    /\ x_left_runs = 0
    /\ EqIdle /\ AggIdle

execFrame == <<eqVars, pad_is_null, joinVars, aggVars>>

\* self.build_side.lock().await completes
lock_acquirable_always == TRUE

lock_acquirable == x_lock = 0

\* lock taken, Some(stream) => stream.clone(); the guard drops with the block
LockClone(p) ==
    /\ x_pc[p] = "start"
    /\ lock_acquirable
    /\ build_side # 0
    /\ x_left_data' = [x_left_data EXCEPT ![p] = build_side]
    /\ x_pc' = [x_pc EXCEPT ![p] = "have_left"]
    /\ UNCHANGED <<execFrame, x_lock, build_side, x_acc, x_arcs, x_left_runs>>

\* lock taken, None => MergeExec::new(left).execute(0) is awaited under the lock
LockBuild(p) ==
    /\ x_pc[p] = "start"
    /\ lock_acquirable
    /\ build_side = 0
    /\ x_lock' = p
    /\ x_pc' = [x_pc EXCEPT ![p] = "building"]
    /\ x_acc' = [x_acc EXCEPT ![p] = <<>>]
    /\ x_left_runs' = x_left_runs + 1
    /\ UNCHANGED <<execFrame, build_side, x_left_data, x_arcs>>

\* try_fold: the left stream yields a batch
BuildBatch(p) ==
    /\ x_pc[p] = "building"
    /\ Len(x_acc[p]) < MaxBuildItems
    /\ \E batch \in JoinBatches(MaxLeftRows) :
          x_acc' = [x_acc EXCEPT ![p] = Append(@, batch)]
    /\ UNCHANGED <<execFrame, x_pc, x_lock, build_side, x_left_data, x_arcs, x_left_runs>>

\* `?` on merge.execute or on the fold: the error is returned, the guard drops
BuildFail_keeps_lock(p) ==
    /\ x_pc[p] = "building"
    /\ x_pc' = [x_pc EXCEPT ![p] = "failed"]
    /\ x_acc' = [x_acc EXCEPT ![p] = <<>>]
    /\ UNCHANGED <<execFrame, x_lock, build_side, x_left_data, x_arcs, x_left_runs>>
BuildFail(p) ==
    /\ x_pc[p] = "building"
    /\ x_pc' = [x_pc EXCEPT ![p] = "failed"]
    /\ x_lock' = IF x_lock = p THEN 0 ELSE x_lock
    /\ x_acc' = [x_acc EXCEPT ![p] = <<>>]
    /\ UNCHANGED <<execFrame, build_side, x_left_data, x_arcs, x_left_runs>>

\* the left stream ends: index, concatenation, publication, guard dropped
BuildFinish(p) ==
    /\ x_pc[p] = "building"
    /\ LET hashmap == build_hashmap(on_left, x_acc[p], 1, EmptyMap, 0, random_state)
           single_batch == concat_batches(JoinSchema, x_acc[p])
       IN  IF ~hashmap.ok
           THEN /\ x_pc' = [x_pc EXCEPT ![p] = "failed"]
                /\ UNCHANGED <<build_side, x_left_data, x_arcs>>
           ELSE /\ x_arcs' = Append(x_arcs, [map |-> hashmap.v, batch |-> single_batch])
                /\ build_side' = Len(x_arcs) + 1
                /\ x_left_data' = [x_left_data EXCEPT ![p] = Len(x_arcs) + 1]
                /\ x_pc' = [x_pc EXCEPT ![p] = "have_left"]
    /\ x_lock' = IF x_lock = p THEN 0 ELSE x_lock
    /\ x_acc' = [x_acc EXCEPT ![p] = <<>>]
    /\ UNCHANGED <<execFrame, x_left_runs>>

\* self.right.execute(partition).await? and the stream's construction
RightExecute(p) ==
    /\ x_pc[p] = "have_left"
    /\ \E ok \in BOOLEAN : x_pc' = [x_pc EXCEPT ![p] = IF ok THEN "stream" ELSE "failed"]
    /\ UNCHANGED <<execFrame, x_lock, build_side, x_acc, x_left_data, x_arcs, x_left_runs>>

NextExec ==
    \E p \in Parts :
        \/ LockClone(p)
        \/ LockBuild(p)
        \/ BuildBatch(p)
        \/ BuildFail(p)
        \/ BuildFinish(p)
        \/ RightExecute(p)

SpecExec == InitExec /\ [][NextExec]_vars

Building == {p \in Parts : x_pc[p] = "building"}
Holding  == {p \in Parts : x_pc[p] \in {"have_left", "stream"}}

IndexComplete(arc) ==
    LET rows == 0..(num_rows(arc.batch) - 1)
    IN  /\ \A i \in rows :
              Cardinality({<<h, k>> \in UNION {{h} \X (1..Len(arc.map[h])) : h \in DOMAIN arc.map} :
                              arc.map[h][k] = i}) = 1
        /\ \A h \in DOMAIN arc.map : Range(arc.map[h]) \subseteq rows

\* C28: the build side is drained before the probe side is touched.  A caller
\* that executes the right input, or has its stream over it, holds an index
\* that is complete; the index is published in the step in which the left
\* input ends and holds every row the left input yielded; and in CollectLeft
\* mode a caller gets past the lock only while no other caller is building, so
\* what it finds in the shared handle is nothing or a complete index.
C28_BuildDrainedBeforeProbe ==
    /\ [](\A p \in Parts : x_pc[p] \in {"have_left", "stream"} =>
              /\ x_left_data[p] # 0
              /\ IndexComplete(x_arcs[x_left_data[p]]))
    /\ [](build_side # 0 => IndexComplete(x_arcs[build_side]))
    /\ [][\A p \in Parts :
              /\ (x_pc[p] = "start" /\ x_pc'[p] # "start") => Building = {}
              /\ (x_pc[p] # "stream" /\ x_pc'[p] = "stream") =>
                     x_pc[p] = "have_left"
              /\ (x_pc[p] # "have_left" /\ x_pc'[p] = "have_left") =>
                     \/ x_pc[p] = "start" /\ x_left_data'[p] = build_side
                     \/ /\ x_pc[p] = "building"
                        /\ x_arcs' = Append(x_arcs, x_arcs'[Len(x_arcs')])
                        /\ x_arcs'[Len(x_arcs')].batch = concat_batches(JoinSchema, x_acc[p])
                        /\ x_left_data'[p] = Len(x_arcs')]_vars

\* one caller has built an index over a batch with rows and has its stream,
\* the other waited for the lock and cloned the handle
C28_Witness ==
    /\ Len(x_arcs) = 1
    /\ num_rows(x_arcs[1].batch) = MaxLeftRows
    /\ x_left_runs = 1
    /\ \E p, q \in Parts : p # q /\ x_pc[p] = "stream" /\ x_pc[q] = "have_left"

\* the calls of execute make progress: while some call can take a step (take
\* the lock, read the next left item, execute the right input), one does
ExecFairness == WF_vars(NextExec)

SpecExecFair == InitExec /\ [][NextExec]_vars /\ ExecFairness

\* C38: a failed build publishes nothing and gives the lock back: the step
\* in which a building caller fails leaves the shared handle empty and the
\* lock free; the lock is only ever held by a caller that is building; a
\* caller that gets the lock while the handle is empty runs the build itself;
\* and no caller waits at the lock for ever: every call of execute returns,
\* with the error or with its stream.
C38_FailedBuildReleasesLock ==
    /\ [][\A p \in Parts :
              /\ (x_pc[p] = "building" /\ x_pc'[p] = "failed") =>
                     /\ build_side' = 0 /\ x_arcs' = x_arcs
                     /\ x_lock' = 0
              /\ (x_pc[p] = "start" /\ x_pc'[p] # "start" /\ build_side = 0) =>
                     x_pc'[p] = "building" /\ x_left_runs' = x_left_runs + 1]_vars
    /\ [](x_lock # 0 => x_pc[x_lock] = "building")
    /\ <>[](\A p \in Parts : x_pc[p] \in {"failed", "stream"})

\* one caller's build failed, a later caller ran the build again and
\* published it
C38_Witness ==
    /\ x_left_runs = 2
    /\ Len(x_arcs) = 1
    /\ \E p, q \in Parts :
          /\ x_pc[p] = "failed" /\ x_left_data[p] = 0
          /\ x_pc[q] = "have_left" /\ x_left_data[q] = 1

(***************************************************************************)
(* Row-hash aggregation (aggregates/row_hash.rs).  One grouping set, one    *)
(* count accumulator in Partial mode: a group key is the byte string        *)
(* create_group_rows writes for a row, the aggregation buffer holds the     *)
(* number of rows accumulated into the group.                               *)
(***************************************************************************)
GroupKeys == {0, 1}   \* group-key byte strings a row can have
RowHashes == {0, 1}   \* values create_row_hashes can give a key

MaxInRows    == 2     \* rows per input batch
MaxInItems   == 2     \* items (batches or errors) the input yields
MaxBatchSize == 2     \* batch_size is 1..MaxBatchSize
MaxDonePolls == 2     \* polls after the stream has returned None

block_size           == 1048576   \* ShortLivedMemoryPool::new
SizeOfU32            == 4         \* size_of::<u32>()
SizeOfRowGroupState  == 72        \* size_of::<RowGroupState>(), three Vecs
SizeOfMapEntry       == 16        \* size_of::<(u64, usize)>()
KeyCapacity          == 8         \* group_by_values.capacity(), one Int64 column
fixed_part_width     == 8         \* state_layout.fixed_part_width(), one count

Max2(a, b) == IF a >= b THEN a ELSE b
MinOf(S)   == CHOOSE x \in S : \A y \in S : x <= y

\* Vec::reserve: the capacity after reserving room for `additional` elements
vec_reserve(capacity, len, additional) ==
    IF capacity - len >= additional THEN capacity
    ELSE Max2(Max2(capacity * 2, len + additional), 4)

RECURSIVE next_power_of_two(_, _)
next_power_of_two(p, n) == IF p >= n THEN p ELSE next_power_of_two(2 * p, n)

\* RawTable::reserve: the capacity after reserving room for `additional` entries
table_reserve(capacity, items, additional) ==
    IF additional <= capacity - items THEN capacity
    ELSE LET want    == Max2(items + additional, capacity + 1)
             buckets == IF want < 4 THEN 4
                        ELSE IF want < 8 THEN 8
                        ELSE next_power_of_two(1, (want * 8) \div 7)
         IN  IF buckets < 8 THEN buckets - 1 ELSE (buckets \div 8) * 7

InputValues == {1}    \* values of the aggregated column (count reads none)

\* an input batch: per row the group key and the aggregate's input value
AggBatches == UNION {[1..n -> GroupKeys \X InputValues] : n \in 0..MaxInRows}

\* evaluate_group_by, create_group_rows: the key bytes of every row
evaluate_group_by(batch) == [k \in 1..Len(batch) |-> batch[k][1]]
\* evaluate_many: the aggregate's input column
evaluate_many(batch) == [k \in 1..Len(batch) |-> batch[k][2]]

\* the state group_aggregate_batch works on, with its pool and its result
AggSt(status) ==
    [map |-> map, map_capacity |-> map_capacity, group_states |-> group_states,
     gs_capacity |-> gs_capacity, groups_with_rows |-> <<>>,
     remaining |-> 0, used |-> used, status |-> status,
     granted |-> 0, shrunk |-> 0, allocated |-> 0, grow_calls |-> 0, grow_asked |-> 0]

\* ShortLivedMemoryPool::alloc; grant is what try_grow answers.  granted,
\* allocated, grow_calls and grow_asked only record what was asked and given.
alloc_ignores_remaining(st, bytes, grant) ==
    IF bytes <= st.remaining
    THEN [st EXCEPT !.remaining = @ - bytes, !.allocated = @ + bytes]
    ELSE LET alloc_size == Max2(bytes, block_size)
             asked == [st EXCEPT !.grow_calls = @ + 1, !.grow_asked = alloc_size]
         IN  IF grant
             THEN [asked EXCEPT !.used = @ + alloc_size,
                                !.remaining = alloc_size - bytes,
                                !.granted = @ + alloc_size,
                                !.allocated = @ + bytes]
             ELSE [asked EXCEPT !.status = "err"]
alloc_forgets_used(st, bytes, grant) ==
    IF bytes <= st.remaining
    THEN [st EXCEPT !.remaining = @ - bytes, !.allocated = @ + bytes]
    ELSE LET b          == bytes - st.remaining
             alloc_size == Max2(b, block_size)
             asked == [st EXCEPT !.grow_calls = @ + 1, !.grow_asked = alloc_size]
         IN  IF grant
             THEN [asked EXCEPT !.remaining = alloc_size - b,
                                !.granted = @ + alloc_size,
                                !.allocated = @ + bytes]
             ELSE [asked EXCEPT !.status = "err"]
alloc_counts_before_grant(st, bytes, grant) ==
    IF bytes <= st.remaining
    THEN [st EXCEPT !.remaining = @ - bytes, !.allocated = @ + bytes]
    ELSE LET b          == bytes - st.remaining
             alloc_size == Max2(b, block_size)
             asked == [st EXCEPT !.grow_calls = @ + 1, !.grow_asked = alloc_size,
                                 !.used = @ + alloc_size,
                                 !.remaining = alloc_size - b]
         IN  IF grant
             THEN [asked EXCEPT !.granted = @ + alloc_size,
                                !.allocated = @ + bytes]
             ELSE [asked EXCEPT !.status = "err"]
alloc(st, bytes, grant) ==
    IF bytes <= st.remaining
    THEN [st EXCEPT !.remaining = @ - bytes, !.allocated = @ + bytes]
    ELSE LET b          == bytes - st.remaining
             alloc_size == Max2(b, block_size)
             asked == [st EXCEPT !.grow_calls = @ + 1, !.grow_asked = alloc_size]
         IN  IF grant
             THEN [asked EXCEPT !.used = @ + alloc_size,
                                !.remaining = alloc_size - b,
                                !.granted = @ + alloc_size,
                                !.allocated = @ + bytes]
             ELSE [asked EXCEPT !.status = "err"]

\* the closure handed to map.get_mut: the key bytes decide, not the hash
group_eq_hash_only(gs, group_idx, key) == TRUE
group_eq(gs, group_idx, key) == gs[group_idx + 1].group_by_values = key

\* map.get_mut(hash, eq): the closure runs on entries of the probed hash until
\* one answers true; on an entry whose index is past group_states it panics.
\* oob_first says whether such an entry is probed before a matching one.
map_get(st, key, hash, oob_first) ==
    LET cand == {k \in 1..Len(st.map) : st.map[k].hash = hash}
        oob  == {k \in cand : st.map[k].group_idx >= Len(st.group_states)}
        hit  == {k \in cand \ oob :
                    group_eq(st.group_states, st.map[k].group_idx, key)}
    IN  IF oob # {} /\ (hit = {} \/ oob_first)
        THEN [kind |-> "panic", group_idx |-> 0]
        ELSE IF hit # {}
        THEN [kind |-> "some", group_idx |-> st.map[MinOf(hit)].group_idx]
        ELSE [kind |-> "none", group_idx |-> 0]

\* Some((_hash, group_idx)): remember the row in the group's scratch indices
existing_entry(st, group_idx, row, grant) ==
    LET gs  == st.group_states[group_idx + 1]
        st1 == IF gs.indices = <<>>
               THEN [st EXCEPT !.groups_with_rows = Append(@, group_idx)]
               ELSE st
    IN  IF gs.indices_capacity = Len(gs.indices)
        THEN LET bump_elements == Max2(gs.indices_capacity * 2, 2)
                 st2 == alloc(st1, SizeOfU32 * bump_elements, grant)
             IN  IF st2.status # "ok" THEN st2
                 ELSE [st2 EXCEPT !.group_states[group_idx + 1] =
                         [gs EXCEPT !.indices = Append(@, row),
                                    !.indices_capacity =
                                        vec_reserve(@, Len(gs.indices), bump_elements)]]
        ELSE [st1 EXCEPT !.group_states[group_idx + 1].indices = Append(@, row)]

\* None: a new RowGroupState; the table insert is tried before the allocation
new_entry(st, key, hash, row, grant) ==
    LET group_state == [group_by_values |-> key, aggregation_buffer |-> 0,
                        indices |-> <<row>>, indices_capacity |-> 1]
        group_idx   == Len(st.group_states)
        own_size    == KeyCapacity + fixed_part_width + SizeOfU32 * 1
        grow_states == st.gs_capacity = Len(st.group_states)
        states_bump == Max2(st.gs_capacity * 2, 16)
        inserted    == Len(st.map) < st.map_capacity   \* try_insert_no_grow
        map_bump    == Max2(st.map_capacity * 2, 16)
        bump_size_total ==
            own_size
            + (IF grow_states THEN states_bump * SizeOfRowGroupState ELSE 0)
            + (IF inserted THEN 0 ELSE map_bump * SizeOfMapEntry)
        entry == [hash |-> hash, group_idx |-> group_idx]
        st1 == IF inserted THEN [st EXCEPT !.map = Append(@, entry)] ELSE st
        st2 == alloc(st1, bump_size_total, grant)
    IN  IF st2.status # "ok" THEN st2
        ELSE [st2 EXCEPT
                !.gs_capacity = IF grow_states
                                THEN vec_reserve(@, Len(st.group_states), states_bump)
                                ELSE @,
                !.group_states = Append(@, group_state),
                !.groups_with_rows = Append(@, group_idx),
                !.map_capacity = IF inserted THEN @
                                 ELSE table_reserve(@, Len(st.map), map_bump),
                !.map = IF inserted THEN @ ELSE Append(@, entry)]

\* for (row, hash) in batch_hashes: probe, then the hit or the miss path
RECURSIVE rows_loop(_, _, _, _, _)
rows_loop(st, group_rows, row, grant, oob_first) ==
    IF row >= Len(group_rows) \/ st.status # "ok" THEN st
    ELSE LET key   == group_rows[row + 1]
             hash  == a_hash[key]
             entry == map_get(st, key, hash, oob_first)
             st1   == IF entry.kind = "panic" THEN [st EXCEPT !.status = "panic"]
                      ELSE IF entry.kind = "some"
                      THEN existing_entry(st, entry.group_idx, row, grant)
                      ELSE new_entry(st, key, hash, row, grant)
             \* the next row starts from the value of st1
         IN  CHOOSE st2 \in {rows_loop(s, group_rows, row + 1, grant, oob_first) :
                                s \in {st1}} : TRUE

\* 2.1-2.5: every group with rows takes its rows and clears its indices
RECURSIVE sum_of(_, _)
sum_of(values, k) == IF k > Len(values) THEN 0 ELSE values[k] + sum_of(values, k + 1)

\* the count accumulator: update_batch counts input rows, merge_batch adds up
\* partial counts
update_batch(buffer, values) == buffer + Len(values)
merge_batch(buffer, states)  == buffer + sum_of(states, 1)

\* match mode { Partial => update_batch, FinalPartitioned | Final => merge_batch }
accumulator_step_updates_only(mode_, buffer, values) == update_batch(buffer, values)
accumulator_step(mode_, buffer, values) ==
    IF mode_ = "Partial" THEN update_batch(buffer, values)
    ELSE merge_batch(buffer, values)

RECURSIVE accumulate(_, _, _, _)
RECURSIVE accumulate_into_slice_position(_, _, _, _)
accumulate_into_slice_position(st, k, mode_, aggr_input_values) ==
    IF k > Len(st.groups_with_rows) THEN st
    ELSE LET i == st.groups_with_rows[k] + 1
             indices == st.group_states[i].indices
             values  == [j \in 1..Len(indices) |-> aggr_input_values[indices[j] + 1]]
         IN  accumulate_into_slice_position(
                 [st EXCEPT !.group_states[k] =
                     [@ EXCEPT !.aggregation_buffer = accumulator_step(mode_, @, values),
                               !.indices = <<>>]],
                 k + 1, mode_, aggr_input_values)
accumulate(st, k, mode_, aggr_input_values) ==
    IF k > Len(st.groups_with_rows) THEN st
    ELSE LET i == st.groups_with_rows[k] + 1
             indices == st.group_states[i].indices
             values  == [j \in 1..Len(indices) |-> aggr_input_values[indices[j] + 1]]
         IN  accumulate(
                 [st EXCEPT !.group_states[i] =
                     [@ EXCEPT !.aggregation_buffer = accumulator_step(mode_, @, values),
                               !.indices = <<>>]],
                 k + 1, mode_, aggr_input_values)

\* the pool is dropped on every way out: the unused rest goes back
pool_drop_keeps_used(st) ==
    [st EXCEPT !.shrunk = @ + st.remaining, !.remaining = 0]
pool_drop(st) ==
    [st EXCEPT !.used = @ - st.remaining, !.shrunk = @ + st.remaining,
               !.remaining = 0]

\* group_aggregate_batch on the state st0 of a stream in mode mode_
ingest_from(st0, mode_, batch, grant, oob_first) ==
    LET st == rows_loop(st0, evaluate_group_by(batch), 0, grant, oob_first)
    IN  pool_drop(IF st.status = "ok"
                  THEN accumulate(st, 1, mode_, evaluate_many(batch))
                  ELSE st)

group_aggregate_batch(batch, grant, oob_first) ==
    ingest_from(AggSt("ok"), mode, batch, grant, oob_first)

\* create_batch_from_map: None past the table, else groups skip..skip+batch_size
\* with their keys and their state (Partial) or evaluated value (Final), which
\* for a count are the same number
batch_from_none_at_table_end(states, size, skip_items) ==
    IF skip_items >= Len(states) THEN [kind |-> "none", rows |-> <<>>]
    ELSE [kind |-> "batch",
          rows |-> [k \in 1..(IF Len(states) - skip_items < size
                              THEN Len(states) - skip_items ELSE size) |->
                       <<states[skip_items + k].group_by_values,
                         states[skip_items + k].aggregation_buffer>>]]
batch_from(states, size, skip_items) ==
    IF skip_items > Len(states) THEN [kind |-> "none", rows |-> <<>>]
    ELSE IF states = <<>> THEN [kind |-> "batch", rows |-> <<>>]
    ELSE [kind |-> "batch",
          rows |-> [k \in 1..(IF Len(states) - skip_items < size
                              THEN Len(states) - skip_items ELSE size) |->
                       <<states[skip_items + k].group_by_values,
                         states[skip_items + k].aggregation_buffer>>]]

create_batch_from_map(skip_items) == batch_from(group_states, batch_size, skip_items)

ErrItem == [kind |-> "err", rows |-> <<>>]

PoolIdle == pool = <<>> /\ pool_open = FALSE /\ pool_n = 0 /\ pool_calls = 0

cancelVars == <<s_pc, s_id, mm_log>>
CancelIdle == s_pc = "idle" /\ s_id = 0 /\ mm_log = <<>>

RECURSIVE append_distinct(_, _, _)
append_distinct(seen, keys, k) ==
    IF k > Len(keys) THEN seen
    ELSE append_distinct(
             IF \E j \in 1..Len(seen) : seen[j] = keys[k] THEN seen
             ELSE Append(seen, keys[k]),
             keys, k + 1)

InitAgg ==
    /\ mode = "Partial" /\ m_whole = <<>> /\ m_input = <<>>
    /\ batch_size \in 1..MaxBatchSize
    /\ a_hash \in [GroupKeys -> RowHashes]
    /\ map = <<>> /\ map_capacity = 0
    /\ group_states = <<>> /\ gs_capacity = 0 /\ used = 0
    /\ row_group_skip_position = 0
    /\ in_ended = FALSE /\ in_items = 0
    /\ a_phase = "running" /\ a_out = <<>>
    /\ a_clean = TRUE /\ a_seen = <<>>
    /\ consumer_live = TRUE /\ mm_held = 0
    /\ PoolIdle /\ CancelIdle /\ spill_result = <<>>
    /\ pad_is_null = FALSE
    /\ EqIdle /\ JoinIdle /\ ExecIdle

poolVars == <<pool, pool_open, pool_n, pool_calls>>
aggFrame == <<eqVars, pad_is_null, joinVars, execVars, mode, m_whole, m_input,
              batch_size, a_hash, poolVars, cancelVars, spill_result>>

\* match result { Ok(_) => continue, Err(e) => Err(..) }: what the loop does
\* with the outcome of an ingest
after_ingest_emits(status, skip_items) ==
    IF status = "err" THEN ErrItem
    ELSE IF status = "ok" THEN create_batch_from_map(skip_items)
    ELSE [kind |-> "panic", rows |-> <<>>]
after_ingest(status, skip_items) ==
    IF status = "err" THEN ErrItem
    ELSE IF status = "ok" THEN [kind |-> "continue", rows |-> <<>>]
    ELSE [kind |-> "panic", rows |-> <<>>]

\* poll: the input yields Some(Ok(batch)); an Ok ingest loops on for the next
\* input item, a failed one is returned after the skip position has advanced
InputBatchFrom(batches, max_items, grants) ==
    /\ a_phase = "running" /\ ~in_ended /\ in_items < max_items
    /\ \E batch \in batches, grant \in grants, oob_first \in BOOLEAN :
        LET st   == group_aggregate_batch(batch, grant, oob_first)
            item == after_ingest(st.status, row_group_skip_position)
            returned == item.kind \in {"err", "batch", "none"}
        IN  /\ map' = st.map
            /\ map_capacity' = st.map_capacity
            /\ group_states' = st.group_states
            /\ gs_capacity' = st.gs_capacity
            /\ used' = st.used
            /\ mm_held' = mm_held + st.granted - st.shrunk   \* try_grow, shrink
            /\ in_items' = in_items + 1
            /\ a_clean' = (a_clean /\ st.status = "ok")
            /\ a_seen' = IF st.status = "ok"
                         THEN append_distinct(a_seen, evaluate_group_by(batch), 1)
                         ELSE a_seen
            /\ a_phase' = IF st.status = "panic" THEN "panicked" ELSE a_phase
            /\ a_out' = IF returned THEN Append(a_out, item) ELSE a_out
            /\ row_group_skip_position' =
                   IF returned THEN row_group_skip_position + batch_size
                   ELSE row_group_skip_position
    /\ UNCHANGED <<aggFrame, in_ended, consumer_live>>

InputBatch == InputBatchFrom(AggBatches, MaxInItems, BOOLEAN)

\* poll: the input yields Some(Err(e))
InputErr ==
    /\ a_phase = "running" /\ ~in_ended /\ in_items < MaxInItems
    /\ in_items' = in_items + 1
    /\ a_out' = Append(a_out, ErrItem)
    /\ row_group_skip_position' = row_group_skip_position + batch_size
    /\ a_clean' = FALSE
    /\ UNCHANGED <<aggFrame, map, map_capacity, group_states, gs_capacity, used,
                   in_ended, a_phase, a_seen, consumer_live, mm_held>>

\* MemoryManager::drop_consumer(id, mem_used): the manager lets go of the
\* bytes the consumer reports
drop_consumer(held, mem_used) == held - mem_used

\* poll: the input yields None (and keeps doing so): one page of the table,
\* or None, which ends the unfold and fuses the stream
InputNone ==
    /\ a_phase = "running"
    /\ LET result == create_batch_from_map(row_group_skip_position)
       IN  /\ a_out' = Append(a_out, result)
           /\ a_phase' = IF result.kind = "none" THEN "done" ELSE a_phase
           \* Ok(None) ends the unfold: `this` is dropped, the consumer with it
           /\ consumer_live' = (result.kind # "none")
           /\ mm_held' = IF result.kind = "none" THEN drop_consumer(mm_held, used)
                          ELSE mm_held
    /\ in_ended' = TRUE
    /\ row_group_skip_position' = row_group_skip_position + batch_size
    /\ UNCHANGED <<aggFrame, map, map_capacity, group_states, gs_capacity, used,
                   in_items, a_clean, a_seen>>

\* what Fuse answers once the inner stream has returned None
fused_poll_reenters == create_batch_from_map(0)
fused_poll == [kind |-> "none", rows |-> <<>>]

\* poll of the fused stream: None, and the unfold closure is not entered
PollFused ==
    /\ a_phase = "done"
    /\ Len(SelectSeq(a_out, LAMBDA it : it.kind = "none")) <= MaxDonePolls
    /\ a_out' = Append(a_out, fused_poll)
    /\ UNCHANGED <<aggFrame, map, map_capacity, group_states, gs_capacity, used,
                   row_group_skip_position, in_ended, in_items, a_phase,
                   a_clean, a_seen, consumer_live, mm_held>>

NextAgg == InputBatch \/ InputErr \/ InputNone \/ PollFused

SpecAgg == InitAgg /\ [][NextAgg]_vars

(***************************************************************************)
(* Aggregation properties                                                  *)
(***************************************************************************)
RECURSIVE concat_rows(_, _)
concat_rows(items, k) ==
    IF k > Len(items) THEN <<>>
    ELSE (IF items[k].kind = "batch" THEN items[k].rows ELSE <<>>)
         \o concat_rows(items, k + 1)

Emitted     == concat_rows(a_out, 1)
EmittedKeys == [k \in 1..Len(Emitted) |-> Emitted[k][1]]
TableKeys   == [k \in 1..Len(group_states) |-> group_states[k].group_by_values]
OutBatches  == SelectSeq(a_out, LAMBDA it : it.kind = "batch")

\* C8: as long as every input item was a batch and every ingest returned Ok,
\* group_states holds one GroupState per distinct key seen so far (rows share a
\* group exactly when their key bytes are equal, whatever their hashes), and
\* once the stream has ended the rows emitted number the distinct keys.
C8_OneGroupPerDistinctKey ==
    a_clean =>
        /\ TableKeys = a_seen
        /\ \A i, j \in 1..Len(group_states) :
               group_states[i].group_by_values = group_states[j].group_by_values
                   => i = j
        /\ a_phase = "done" => Len(Emitted) = Cardinality(Range(a_seen))

C8_Witness ==
    /\ a_clean /\ a_phase = "done"
    /\ Len(group_states) = 2
    /\ a_hash[group_states[1].group_by_values] = a_hash[group_states[2].group_by_values]
    /\ \E k \in 1..2 : group_states[k].aggregation_buffer >= 2
    /\ Len(Emitted) = 2

\* C9: when the stream has ended, group k of the concatenated output is the
\* k-th distinct key in order of first appearance in the ingested input.
C9_FirstAppearanceOrder ==
    a_phase = "done" => EmittedKeys = a_seen

\* C10: when the stream has ended, the concatenated output batches hold every
\* group of the table exactly once, and every batch but the last has exactly
\* batch_size rows.
C10_PagingCoversEveryGroup ==
    a_phase = "done" =>
        /\ EmittedKeys = TableKeys
        /\ \A k \in 1..(Len(OutBatches) - 1) : Len(OutBatches[k].rows) = batch_size

HasErrItem == \E k \in 1..Len(a_out) : a_out[k].kind = "err"
NoneItem   == [kind |-> "none", rows |-> <<>>]

\* C11: an error item is terminal: once the stream has yielded an error item,
\* a poll ingests nothing (the table, the groups and the count of consumed
\* input items stay as they are) and yields end-of-stream, never a data batch
\* or a further error.
C11_ErrorIsTerminal ==
    [][HasErrItem =>
          /\ UNCHANGED <<map, map_capacity, group_states, gs_capacity, in_items>>
          /\ a_out' = Append(a_out, NoneItem)]_vars

\* C12: in every reachable state every table entry (h, i) has
\* i < len(group_states) and h = hash(group_states[i].key), and every group
\* index has exactly one table entry.
C12_TableEntriesValid ==
    /\ \A k \in 1..Len(map) :
          /\ map[k].group_idx < Len(group_states)
          /\ map[k].hash = a_hash[group_states[map[k].group_idx + 1].group_by_values]
    /\ \A i \in 0..(Len(group_states) - 1) :
          Cardinality({k \in 1..Len(map) : map[k].group_idx = i}) = 1

HasBatchItem == \E k \in 1..Len(a_out) : a_out[k].kind = "batch"

\* C13: no data batch is emitted before the input has returned end-of-stream,
\* and no input item is consumed once a data batch has been emitted.
C13_NoBatchBeforeInputEnd ==
    /\ [](HasBatchItem => in_ended)
    /\ [][in_items' # in_items => ~HasBatchItem']_vars

C13_Witness ==
    /\ in_ended /\ in_items = 2 /\ ~HasErrItem
    /\ \E k \in 1..Len(a_out) : a_out[k].kind = "batch" /\ Len(a_out[k].rows) = 2

\* C14: once the stream has returned end-of-stream, every later item is
\* end-of-stream, and a later poll consumes no input item and leaves the table,
\* the groups and the skip position alone.
C14_FusedAfterEnd ==
    /\ [](\A k \in 1..Len(a_out) : \A j \in k..Len(a_out) :
             a_out[k].kind = "none" => a_out[j].kind = "none")
    /\ [][a_phase = "done" =>
             /\ a_out' = Append(a_out, NoneItem)
             /\ UNCHANGED <<in_items, map, map_capacity, group_states,
                            gs_capacity, used, row_group_skip_position>>]_vars

C14_Witness ==
    /\ a_phase = "done"
    /\ Len(Emitted) >= 1
    /\ Len(SelectSeq(a_out, LAMBDA it : it.kind = "none")) >= 3

\* C15: once the join stream has returned end-of-stream, every later item is
\* end-of-stream, for each join type (the right input keeps returning None
\* after its end); the unmatched batch is not produced again.
C15_JoinFusedAfterEnd ==
    \A k \in 1..Len(out) : \A j \in k..Len(out) :
        out[k].kind = "none" => out[j].kind = "none"

C15_Witness ==
    /\ join_type \in {"Left", "Full"}
    /\ \E k \in 1..Len(out) : out[k].src = "unmatched" /\ Len(out[k].pairs) >= 1
    /\ NoneCount >= 2

\* C16: the unmatched batch is the last data item of the stream: no batch, be
\* it a probe batch or a second unmatched batch, follows it.
C16_UnmatchedBatchIsLast ==
    \A k \in 1..Len(out) : \A j \in (k + 1)..Len(out) :
        out[k].src = "unmatched" => out[j].kind # "batch"

(***************************************************************************)
(* ShortLivedMemoryPool on its own (SpecPool): scopes that create a pool    *)
(* over the consumer, call alloc with sizes below, at and above the block   *)
(* size, and drop the pool.                                                 *)
(***************************************************************************)
MaxPoolCalls == 3     \* alloc calls in all
PoolSizes == {8, 1048576, 3000000}

InitPool ==
    /\ pool = [remaining |-> 0, used |-> 0, status |-> "ok", granted |-> 0,
               shrunk |-> 0, allocated |-> 0, grow_calls |-> 0, grow_asked |-> 0]
    /\ pool_open = FALSE /\ pool_n = 0 /\ pool_calls = 0
    /\ mode = "Partial" /\ m_whole = <<>> /\ m_input = <<>>
    /\ batch_size = 1 /\ a_hash = <<>> /\ map = <<>> /\ map_capacity = 0
    /\ group_states = <<>> /\ gs_capacity = 0 /\ used = 0
    /\ row_group_skip_position = 0
    /\ in_ended = FALSE /\ in_items = 0 /\ a_phase = "idle" /\ a_out = <<>>
    /\ a_clean = TRUE /\ a_seen = <<>>
    /\ consumer_live = TRUE /\ mm_held = 0
    /\ CancelIdle /\ spill_result = <<>>
    /\ pad_is_null = FALSE
    /\ EqIdle /\ JoinIdle /\ ExecIdle

poolFrame == <<eqVars, pad_is_null, joinVars, execVars, mode, m_whole, m_input, batch_size, a_hash, map,
               map_capacity, group_states, gs_capacity, row_group_skip_position,
               in_ended, in_items, a_phase, a_out, a_clean, a_seen, consumer_live,
               cancelVars, spill_result>>

\* ShortLivedMemoryPool::new at the start of an ingest
PoolNew ==
    /\ ~pool_open
    /\ pool_calls < MaxPoolCalls
    /\ pool_open' = TRUE
    /\ pool' = [pool EXCEPT !.remaining = 0, !.status = "ok"]
    /\ UNCHANGED <<poolFrame, used, mm_held, pool_n, pool_calls>>

\* memory_pool.alloc(n).await
PoolAlloc ==
    /\ pool_open /\ pool.status = "ok"
    /\ pool_calls < MaxPoolCalls
    /\ \E n \in PoolSizes, grant \in BOOLEAN :
          LET st == alloc(pool, n, grant)
          IN  /\ pool' = st
              /\ used' = st.used
              /\ mm_held' = mm_held + (st.granted - pool.granted)
              /\ pool_n' = n
    /\ pool_calls' = pool_calls + 1
    /\ UNCHANGED <<poolFrame, pool_open>>

\* the ingest returns, with Ok or with the error of a denied grant
PoolDrop ==
    /\ pool_open
    /\ LET st == pool_drop(pool)
       IN  /\ pool' = st
           /\ used' = st.used
           /\ mm_held' = mm_held - (st.shrunk - pool.shrunk)
    /\ pool_open' = FALSE
    /\ UNCHANGED <<poolFrame, pool_n, pool_calls>>

NextPool == PoolNew \/ PoolAlloc \/ PoolDrop

SpecPool == InitPool /\ [][NextPool]_vars

\* C18 as stated: after the stream has terminated the consumer's used counter
\* is 0.
C18_UsedZeroAfterEnd ==
    a_phase = "done" => used = 0

\* C18 as amended: after the stream has returned end-of-stream its consumer has
\* been dropped and the manager holds no bytes for it; until then the manager
\* holds exactly the bytes of the used counter, which is never reset.
C18_ManagerHoldsNothingAfterEnd ==
    /\ a_phase = "done" => ~consumer_live /\ mm_held = 0
    /\ consumer_live => mm_held = used

C18_Witness ==
    /\ a_phase = "done" /\ ~consumer_live
    /\ Len(group_states) = 2 /\ used > 0 /\ mm_held = 0

\* C19: with no pool open, the used counter is the bytes granted minus the
\* bytes shrunk and also the sum of the sizes of the successful alloc calls;
\* the slack never exceeds the counter it is subtracted from.
C19_UsedIsGrantedMinusShrunk ==
    /\ ~pool_open => /\ used = pool.granted - pool.shrunk
                     /\ used = pool.allocated
    /\ pool.remaining <= used
    /\ used >= 0

C19_Witness ==
    /\ ~pool_open
    /\ pool.grow_calls >= 2 /\ pool.shrunk > 0 /\ pool.status = "err"
    /\ used > block_size

\* C20: alloc(n) with n <= remaining asks the manager for nothing and lowers
\* remaining by n; otherwise it makes one try_grow of max(n - remaining, 1 MiB)
\* bytes and, when that is granted, remaining is the grant minus the deficit
\* and used has grown by the grant.
C20_AllocContract ==
    [][pool_calls' = pool_calls + 1 =>
          LET n == pool_n'
              deficit == n - pool.remaining
              wanted == IF deficit >= 1024 * 1024 THEN deficit ELSE 1024 * 1024
          IN  IF n <= pool.remaining
              THEN /\ pool'.grow_calls = pool.grow_calls
                   /\ pool'.remaining = pool.remaining - n
                   /\ used' = used
                   /\ pool'.status = "ok"
              ELSE /\ pool'.grow_calls = pool.grow_calls + 1
                   /\ pool'.grow_asked = wanted
                   /\ pool'.status = "ok" =>
                         /\ pool'.remaining = wanted - deficit
                         /\ used' = used + wanted
                   /\ pool'.status # "ok" =>
                         /\ pool'.remaining = pool.remaining
                         /\ used' = used]_vars

C20_Witness ==
    /\ pool_open /\ pool.status = "ok"
    /\ pool_n = 1048576 /\ pool.grow_calls = 2
    /\ pool.remaining = 1048576 - 8

\* C40: an alloc whose try_grow is denied returns the error and leaves the
\* pool's remaining, the consumer's used counter and the manager's grant as
\* they were; the drop of that pool then gives back exactly the remaining of
\* before the denied call, which is never more than what the pool's scope was
\* granted, and the manager still holds exactly the used counter.
C40_DeniedAllocChangesNothing ==
    /\ [][(pool.status = "ok" /\ pool'.status = "err") =>
              /\ pool_calls' = pool_calls + 1
              /\ pool'.grow_calls = pool.grow_calls + 1
              /\ pool'.remaining = pool.remaining
              /\ used' = used /\ pool'.used = pool.used
              /\ pool'.granted = pool.granted
              /\ mm_held' = mm_held]_vars
    /\ [][(pool_open /\ ~pool_open' /\ pool.status = "err") =>
              /\ pool'.shrunk = pool.shrunk + pool.remaining
              /\ used' = used - pool.remaining
              /\ mm_held' = used'
              /\ mm_held' >= 0]_vars
    /\ [](pool.shrunk + pool.remaining <= pool.granted)

\* a pool that had slack left from a granted block was denied its next block
\* and has been dropped
C40_Witness ==
    /\ ~pool_open /\ pool.status = "err"
    /\ pool.grow_calls = 2 /\ pool.granted = block_size
    /\ pool.shrunk = block_size - 8
    /\ used = 8 /\ mm_held = 8

(***************************************************************************)
(* Partial aggregators feeding a Final one (SpecModes).  The input is split *)
(* into parts, one batch each; a Partial-mode stream runs over every part   *)
(* with its grants given, and the pages it emits are, in order, the input   *)
(* of the Final-mode stream, which is the state machine.                    *)
(***************************************************************************)
MaxParts == 2     \* parts the input is split into
MaxWholeRows == 3 \* rows of the whole input

AggSeeds == {[k \in GroupKeys |-> 0], [k \in GroupKeys |-> k]}

FreshSt ==
    [map |-> <<>>, map_capacity |-> 0, group_states |-> <<>>,
     gs_capacity |-> 0, groups_with_rows |-> <<>>,
     remaining |-> 0, used |-> 0, status |-> "ok",
     granted |-> 0, shrunk |-> 0, allocated |-> 0, grow_calls |-> 0, grow_asked |-> 0]

\* the unfold loop once the input has ended: pages until create_batch_from_map
\* answers None
RECURSIVE pages(_, _, _)
pages(states, size, skip_items) ==
    LET result == batch_from(states, size, skip_items)
    IN  IF result.kind = "none" THEN <<>>
        ELSE <<result.rows>> \o pages(states, size, skip_items + size)

\* the data batches of a Partial-mode stream whose input is the one batch
partial_stream(batch, size) ==
    CHOOSE emitted \in {pages(st.group_states, size, 0) :
                           st \in {ingest_from(FreshSt, "Partial", batch, TRUE, FALSE)}} : TRUE

\* the pages of the Partial-mode streams over the parts, concatenated in order
\* the pages of the Partial-mode streams over the parts, concatenated in order
RECURSIVE partial_outputs(_, _, _)
partial_outputs(parts, size, k) ==
    IF k > Len(parts) THEN <<>>
    ELSE partial_stream(parts[k], size) \o partial_outputs(parts, size, k + 1)

\* the splits of an input of at most MaxWholeRows rows into at most MaxParts parts
RECURSIVE whole_rows(_, _)
whole_rows(parts, k) ==
    IF k > Len(parts) THEN 0 ELSE Len(parts[k]) + whole_rows(parts, k + 1)

PartBatches == UNION {[1..n -> GroupKeys \X InputValues] : n \in 0..MaxWholeRows}

Splits ==
    {parts \in UNION {[1..n -> PartBatches] : n \in 0..MaxParts} :
        whole_rows(parts, 1) <= MaxWholeRows}

InitModes ==
    /\ mode = "Final"
    /\ batch_size \in 1..MaxBatchSize
    /\ a_hash \in AggSeeds
    /\ m_whole \in Splits
    /\ m_input = partial_outputs(m_whole, batch_size, 1)
    /\ map = <<>> /\ map_capacity = 0
    /\ group_states = <<>> /\ gs_capacity = 0 /\ used = 0
    /\ row_group_skip_position = 0
    /\ in_ended = FALSE /\ in_items = 0
    /\ a_phase = "running" /\ a_out = <<>>
    /\ a_clean = TRUE /\ a_seen = <<>>
    /\ consumer_live = TRUE /\ mm_held = 0
    /\ PoolIdle /\ CancelIdle /\ spill_result = <<>>
    /\ pad_is_null = FALSE
    /\ EqIdle /\ JoinIdle /\ ExecIdle

\* the Final stream's input yields the next page of the Partial streams
ModesBatch ==
    /\ in_items < Len(m_input)
    /\ InputBatchFrom({m_input[in_items + 1]}, Len(m_input), {TRUE})

\* the Final stream's input has ended
ModesNone ==
    /\ in_items = Len(m_input)
    /\ InputNone

NextModes == ModesBatch \/ ModesNone \/ PollFused

SpecModes == InitModes /\ [][NextModes]_vars

RECURSIVE rows_with(_, _, _)
rows_with(key, parts, k) ==
    IF k > Len(parts) THEN 0
    ELSE Cardinality({r \in 1..Len(parts[k]) : parts[k][r][1] = key})
         + rows_with(key, parts, k + 1)

\* C17: for every split of the input into parts, the Final-mode stream over
\* the concatenated outputs of the Partial-mode streams ends with one row per
\* group of the whole input, holding the count of the group's rows in the
\* whole input.
C17_PartialThenFinalEqualsWhole ==
    a_phase = "done" =>
        /\ {Emitted[k] : k \in 1..Len(Emitted)} =
              {<<key, rows_with(key, m_whole, 1)>> :
                  key \in {g \in GroupKeys : rows_with(g, m_whole, 1) > 0}}
        /\ Len(Emitted) = Cardinality({g \in GroupKeys : rows_with(g, m_whole, 1) > 0})

C17_Witness ==
    /\ a_phase = "done"
    /\ Len(m_whole) = 2
    /\ \E key \in GroupKeys :
          /\ rows_with(key, <<m_whole[1]>>, 1) = 2
          /\ rows_with(key, <<m_whole[2]>>, 1) = 1
          /\ \E k \in 1..Len(Emitted) : Emitted[k] = <<key, 3>>

(***************************************************************************)
(* The memory manager asks the aggregator's consumer to spill (SpecSpill):  *)
(* the stream ingests batches and pages its table out, and spill is called  *)
(* at any time while the consumer lives.                                    *)
(***************************************************************************)
MaxSpillCalls == 1    \* spill calls in all
MaxSpillItems == 1    \* batches the input yields (SpecSpill)

\* AggregationStateMemoryConsumer::spill(&self): what it answers and what it
\* leaves in the used counter
spill_frees_all(mem_used) == [result |-> "Ok", used |-> 0]
spill(mem_used) == [result |-> "ResourcesExhausted", used |-> mem_used]

Spill ==
    /\ consumer_live
    /\ Len(spill_result) < MaxSpillCalls
    /\ LET answer == spill(used)
       IN  /\ spill_result' = Append(spill_result, answer.result)
           /\ used' = answer.used
    /\ UNCHANGED <<eqVars, pad_is_null, joinVars, execVars, mode, m_whole, m_input,
                   batch_size, a_hash, poolVars, cancelVars,
                   map, map_capacity, group_states, gs_capacity,
                   row_group_skip_position, in_ended, in_items, a_phase, a_out,
                   a_clean, a_seen, consumer_live, mm_held>>

SpillInputBatch == InputBatchFrom(AggBatches, MaxSpillItems, BOOLEAN)

NextSpill == SpillInputBatch \/ InputNone \/ Spill

SpecSpill == InitAgg /\ [][NextSpill]_vars

\* C21: every spill call answers ResourcesExhausted, and the call leaves used,
\* the table and group_states as they were.
C21_SpillFailsAndChangesNothing ==
    /\ [](\A k \in 1..Len(spill_result) : spill_result[k] = "ResourcesExhausted")
    /\ [][spill_result' # spill_result =>
             /\ used' = used
             /\ map' = map /\ map_capacity' = map_capacity
             /\ group_states' = group_states /\ gs_capacity' = gs_capacity]_vars

C21_Witness ==
    /\ Len(spill_result) >= 1
    /\ Len(group_states) >= 1
    /\ used > 0

(***************************************************************************)
(* The stream's future, suspended and dropped (SpecCancel).  s_pc is where  *)
(* the future stands: "created" before the first poll, "await_input" in     *)
(* this.input.next().await, "ingest" inside group_aggregate_batch between   *)
(* two awaits, "await_grant" in try_grow(..).await, "errored" and "yielded" *)
(* after an item has been returned, "ended" after None, "dropped" after the *)
(* stream has been dropped.  An ingest is the alloc calls it makes.  mm_log *)
(* is what the memory manager is told, in order.                            *)
(***************************************************************************)
MaxCancelCalls == 3   \* input batches and alloc calls in all
ConsumerIds == {0, 1} \* MemoryConsumerId::new(partition)

Suspended == {"created", "await_input", "await_grant", "errored", "yielded"}

mm_event(op, id, bytes, at) == [op |-> op, id |-> id, bytes |-> bytes, at |-> at]

InitCancel ==
    /\ s_pc = "created"
    /\ s_id \in ConsumerIds
    \* register_requester(aggr_state.memory_consumer.id())
    /\ mm_log = <<mm_event("register_requester", s_id, 0, "new")>>
    /\ pool = [remaining |-> 0, used |-> 0, status |-> "ok", granted |-> 0,
               shrunk |-> 0, allocated |-> 0, grow_calls |-> 0, grow_asked |-> 0]
    /\ pool_open = FALSE /\ pool_n = 0 /\ pool_calls = 0
    /\ mode = "Partial" /\ m_whole = <<>> /\ m_input = <<>>
    /\ batch_size = 1 /\ a_hash = <<>> /\ map = <<>> /\ map_capacity = 0
    /\ group_states = <<>> /\ gs_capacity = 0 /\ used = 0
    /\ row_group_skip_position = 0
    /\ in_ended = FALSE /\ in_items = 0 /\ a_phase = "idle" /\ a_out = <<>>
    /\ a_clean = TRUE /\ a_seen = <<>>
    /\ consumer_live = TRUE /\ mm_held = 0
    /\ spill_result = <<>>
    /\ pad_is_null = FALSE
    /\ EqIdle /\ JoinIdle /\ ExecIdle

cancelFrame == <<eqVars, pad_is_null, joinVars, execVars, mode, m_whole, m_input,
                 batch_size, a_hash, map, map_capacity, group_states, gs_capacity,
                 row_group_skip_position, in_ended, in_items, a_phase, a_out,
                 a_clean, a_seen, spill_result, s_id>>

\* poll: the closure is entered and awaits the next input item
CancelPoll ==
    /\ s_pc \in {"created", "errored", "yielded"}
    /\ s_pc' = "await_input"
    /\ UNCHANGED <<cancelFrame, pool, pool_open, pool_n, pool_calls, used, mm_held,
                   consumer_live, mm_log>>

\* the input yields a batch: group_aggregate_batch starts, its pool is made
CancelInputBatch ==
    /\ s_pc = "await_input"
    /\ pool_calls < MaxCancelCalls
    /\ s_pc' = "ingest"
    /\ pool_open' = TRUE
    /\ pool' = [pool EXCEPT !.remaining = 0, !.status = "ok"]
    /\ pool_calls' = pool_calls + 1
    /\ UNCHANGED <<cancelFrame, pool_n, used, mm_held, consumer_live, mm_log>>

\* memory_pool.alloc(n): served from the block, or try_grow is awaited
CancelAlloc ==
    /\ s_pc = "ingest"
    /\ pool_calls < MaxCancelCalls
    /\ \E n \in PoolSizes :
          /\ pool_n' = n
          /\ IF n <= pool.remaining
             THEN pool' = alloc(pool, n, TRUE) /\ s_pc' = "ingest"
             ELSE pool' = pool /\ s_pc' = "await_grant"
    /\ pool_calls' = pool_calls + 1
    /\ UNCHANGED <<cancelFrame, pool_open, used, mm_held, consumer_live, mm_log>>

\* try_grow answers Ok: the alloc goes on
CancelGranted ==
    /\ s_pc = "await_grant"
    /\ LET st == alloc(pool, pool_n, TRUE)
       IN  /\ pool' = st
           /\ used' = st.used
           /\ mm_held' = mm_held + (st.granted - pool.granted)
    /\ s_pc' = "ingest"
    /\ UNCHANGED <<cancelFrame, pool_open, pool_n, pool_calls, consumer_live, mm_log>>

\* the pool goes out of scope: group_aggregate_batch returns, or the future
\* that holds it is dropped
drop_pool_in_scope_forgets(open, p) == p
drop_pool_in_scope(open, p) == IF open THEN pool_drop(p) ELSE p

\* what the manager is told when the pool goes out of scope
pool_drop_log(open, p, st, at) ==
    IF open THEN <<mm_event("shrink", s_id, st.shrunk - p.shrunk, at)>> ELSE <<>>

\* group_aggregate_batch returns: Ok (the loop awaits the next input item) or,
\* with try_grow denied, the error, which the poll returns
CancelIngestReturns ==
    /\ s_pc \in {"ingest", "await_grant"}
    /\ LET failed == alloc(pool, pool_n, FALSE)
           st == drop_pool_in_scope(pool_open,
                                    IF s_pc = "await_grant" THEN failed ELSE pool)
       IN  /\ pool' = st
           /\ used' = st.used
           /\ mm_held' = mm_held - (st.shrunk - pool.shrunk)
           /\ mm_log' = mm_log \o pool_drop_log(pool_open, pool, st, s_pc)
    /\ pool_open' = FALSE
    /\ s_pc' = IF s_pc = "await_grant" THEN "errored" ELSE "await_input"
    /\ UNCHANGED <<cancelFrame, pool_n, pool_calls, consumer_live>>

\* the input yields Some(Err(e)): the poll returns it
CancelInputErr ==
    /\ s_pc = "await_input"
    /\ s_pc' = "errored"
    /\ UNCHANGED <<cancelFrame, pool, pool_open, pool_n, pool_calls, used, mm_held,
                   consumer_live, mm_log>>

\* Drop for AggregationStateMemoryConsumer
consumer_drop(log, id, mem_used, at) ==
    log \o <<mm_event("drop_consumer", id, mem_used, at)>>

\* the input yields None: the poll returns a page of the table, or None, and
\* with None the unfold state, the consumer in it, is dropped
CancelInputNone ==
    /\ s_pc = "await_input"
    /\ \/ /\ s_pc' = "yielded"
          /\ UNCHANGED <<mm_log, mm_held, consumer_live>>
       \/ /\ s_pc' = "ended"
          /\ mm_log' = consumer_drop(mm_log, s_id, used, s_pc)
          /\ mm_held' = drop_consumer(mm_held, used)
          /\ consumer_live' = FALSE
    /\ UNCHANGED <<cancelFrame, pool, pool_open, pool_n, pool_calls, used>>

\* the stream is dropped: the locals of a suspended group_aggregate_batch go
\* first, the pool among them, then the unfold state with the consumer
CancelDrop ==
    /\ s_pc \in Suspended \cup {"ended"}
    /\ LET st   == drop_pool_in_scope(pool_open, pool)
           log1 == mm_log \o pool_drop_log(pool_open, pool, st, s_pc)
           held == mm_held - (st.shrunk - pool.shrunk)
       IN  /\ pool' = st
           /\ used' = st.used
           /\ mm_log' = IF consumer_live THEN consumer_drop(log1, s_id, st.used, s_pc)
                        ELSE log1
           /\ mm_held' = IF consumer_live THEN drop_consumer(held, st.used) ELSE held
    /\ pool_open' = FALSE
    /\ consumer_live' = FALSE
    /\ s_pc' = "dropped"
    /\ UNCHANGED <<cancelFrame, pool_n, pool_calls>>

NextCancel ==
    \/ CancelPoll \/ CancelInputBatch \/ CancelAlloc \/ CancelGranted
    \/ CancelIngestReturns \/ CancelInputErr \/ CancelInputNone \/ CancelDrop

SpecCancel == InitCancel /\ [][NextCancel]_vars

DropCalls == SelectSeq(mm_log, LAMBDA e : e.op = "drop_consumer")

\* C22: once the stream has been dropped, from whichever point, drop_consumer
\* has been called exactly once, as the last thing the manager is told, for
\* the id registered at construction and with the consumer's used balance;
\* before the stream has ended or been dropped it has not been called; and a
\* drop with a pool in scope first shrinks by the pool's slack.
C22_DropReleasesExactlyOnce ==
    /\ [](s_pc = "dropped" =>
             /\ Len(DropCalls) = 1
             /\ DropCalls[1].id = mm_log[1].id
             /\ DropCalls[1].bytes = used)
    /\ [](s_pc \in Suspended \cup {"ingest"} => Len(DropCalls) = 0)
    /\ [][(s_pc \in Suspended /\ s_pc' = "dropped") =>
             mm_log' = mm_log
                 \o (IF pool_open
                     THEN <<mm_event("shrink", s_id, pool.remaining, s_pc)>>
                     ELSE <<>>)
                 \o <<mm_event("drop_consumer", s_id, used - (IF pool_open THEN pool.remaining ELSE 0), s_pc)>>]_vars

C22_Witness ==
    /\ s_pc = "dropped"
    /\ Len(mm_log) >= 3
    /\ mm_log[Len(mm_log)].op = "drop_consumer"
    /\ mm_log[Len(mm_log)].at = "await_grant"
    /\ mm_log[Len(mm_log)].bytes > 0
    /\ mm_log[Len(mm_log) - 1].op = "shrink"
    /\ mm_log[Len(mm_log) - 1].bytes > 0

(***************************************************************************)
(* The join on a column of any data type (SpecTypes): the left input yields *)
(* one batch, the right input batches of the same schema.                   *)
(***************************************************************************)
MaxTypedRows == 1     \* rows per batch

TypedBatches(t) == UNION {{<<c>> : c \in ColumnsOf(t, n)} : n \in 0..MaxTypedRows}

schema_of(batch) == [c \in 1..Len(batch) |-> batch[c].type]

InitTypes ==
    /\ pad_is_null = FALSE
    /\ join_type \in JoinTypes
    /\ random_state \in {SingleBucket, SpreadHash}
    /\ jphase = "build"
    /\ \E t \in DataTypes : \E batch \in TypedBatches(t) : left_batches = <<batch>>
    /\ left_data = <<>>
    /\ visited_left_side = <<>>
    /\ is_exhausted = FALSE
    /\ right_ended = FALSE
    /\ right_items = 0
    /\ out = <<>>
    /\ EqIdle /\ ExecIdle /\ AggIdle

TypedLeftEnd == LeftEndWith(schema_of(left_batches[1]))

TypedPollBatch == PollBatchFrom(TypedBatches(left_batches[1][1].type))

NextTypes == TypedLeftEnd \/ TypedPollBatch \/ PollEnd

SpecTypes == InitTypes /\ [][NextTypes]_vars

\* a one-row column of the build side's join-column type, and whether each
\* function takes the type
TypedColumn ==
    <<CHOOSE c \in ColumnsOf(left_batches[1][on_left[1]].type, 1) : TRUE>>
HashAccepts  == create_hashes(random_state, TypedColumn, ZeroBuffer(1)).ok
EqualAccepts == equal_rows(0, 0, TypedColumn, TypedColumn) # "err"

\* C23: equal_rows and create_hashes accept the same join-column types, and
\* no poll of the join stream is aborted: a type that is not accepted comes
\* out as an error item.
C23_SameTypesAndErrorItem ==
    /\ HashAccepts <=> EqualAccepts
    /\ jphase # "panicked"

(***************************************************************************)
(* create_hashes called on its own (SpecHash): one call on up to three      *)
(* Int32 columns, whose slots are null or hold a key, with a buffer that is *)
(* zeroed or holds earlier hashes, under seeds whose hashes make the        *)
(* combination wrap.                                                        *)
(***************************************************************************)
MaxHashRows == 2      \* rows per call

ColumnCounts == {1, 2, 3}
HashKeys == {0, 1}
HashCells == {[null |-> TRUE, val |-> 0]} \cup {[null |-> FALSE, val |-> v] : v \in HashKeys}

u64_MAX == <<Limb - 1, Limb - 1, Limb - 1, Limb - 1>>
HashSeeds ==
    {[v \in HashKeys |-> IF v = 0 THEN u64_MAX ELSE u64(1)],
     [v \in HashKeys |-> IF v = 0 THEN <<0, 0, 0, Limb \div 2>> ELSE <<1, 2, 3, 4>>]}

HashColumns(n) == {[type |-> "Int32", data |-> d] : d \in [1..n -> HashCells]}
HashArrays == UNION {[1..k -> HashColumns(n)] : k \in ColumnCounts, n \in 1..MaxHashRows}

\* what a buffer holds before the call: zeros (clear, resize(n, 0)), or the
\* hashes an earlier call left
DirtyBuffer(n) == [i \in 1..n |-> <<i, 0, 0, 7>>]
HashBuffers(n) == {ZeroBuffer(n), DirtyBuffer(n)}

HashCall(arrays, buffer) ==
    [arrays |-> arrays, buffer |-> SubSeq(buffer, 1, Len(arrays[1].data))]

InitHashRest ==
    /\ random_state \in HashSeeds
    /\ h_out = <<>>
    /\ SchemaIdle /\ PartsIdle
    /\ eq_left = <<>> /\ eq_right = <<>> /\ eq_args = <<0, 0>> /\ eq_out = "none"
    /\ pad_is_null = FALSE
    /\ join_type = "Inner" /\ StreamIdle
    /\ ExecIdle /\ AggIdle

InitHash ==
    /\ \E a \in HashArrays, b \in HashBuffers(MaxHashRows) : h_calls = <<HashCall(a, b)>>
    /\ InitHashRest

\* create_hashes(&arrays, &random_state, &mut hashes_buffer)
CallCreateHashes ==
    /\ Len(h_out) < Len(h_calls)
    /\ LET call == h_calls[Len(h_out) + 1]
       IN  h_out' = Append(h_out, create_hashes(random_state, call.arrays, call.buffer))
    /\ UNCHANGED <<eq_left, eq_right, eq_args, eq_out, h_calls, try_new_args, schema_out, partVars, pad_is_null, joinVars,
                   execVars, aggVars>>

NextHash == CallCreateHashes

SpecHash == InitHash /\ [][NextHash]_vars

\* the formula of the claim, computed on bytes: (x * m + y) mod 2^64
to_bytes(a) ==
    [k \in 1..8 |-> IF k % 2 = 1 THEN a[(k + 1) \div 2] % 256 ELSE a[k \div 2] \div 256]

RECURSIVE bytes_muladd(_, _, _, _, _)
bytes_muladd(x, m, y, k, carry) ==
    IF k > 8 THEN <<>>
    ELSE LET t == x[k] * m + y[k] + carry
         IN  <<t % 256>> \o bytes_muladd(x, m, y, k + 1, t \div 256)

\* ((17*37 + h) * 37 + acc) mod 2^64
CombineFormula(h, acc) ==
    bytes_muladd(bytes_muladd(h, 1, to_bytes(u64(17 * 37)), 1, 0), 37, acc, 1, 0)

\* the fold over columns c..k of row i, from acc
RECURSIVE FoldFormula(_, _, _, _)
FoldFormula(arrays, c, i, acc) ==
    IF c > Len(arrays) THEN acc
    ELSE FoldFormula(arrays, c + 1, i,
             IF arrays[c].data[i].null THEN acc
             ELSE CombineFormula(to_bytes(random_state[arrays[c].data[i].val]), acc))

\* C24: of a call on k columns, out[i] is, for k >= 2, the left-to-right fold
\* of ((17*37 + h_c) * 37 + out[i]) mod 2^64 over the columns, a null leaving
\* out[i] as it is; for k = 1 it is the column hash, or what the buffer held
\* when the value is null.
C24_HashIsWrappingFold ==
    \A n \in 1..Len(h_out) :
        LET arrays == h_calls[n].arrays
            buffer == h_calls[n].buffer
        IN  /\ h_out[n].ok
            /\ Len(h_out[n].v) = Len(buffer)
            /\ \A i \in 1..Len(buffer) :
                  to_bytes(h_out[n].v[i]) =
                     IF Len(arrays) >= 2
                     THEN FoldFormula(arrays, 1, i, to_bytes(buffer[i]))
                     ELSE IF arrays[1].data[i].null THEN to_bytes(buffer[i])
                     ELSE to_bytes(random_state[arrays[1].data[i].val])

\* a call on three columns from a zeroed buffer: a row with a null in the
\* middle column and a row whose fold wraps
C24_Witness ==
    /\ Len(h_out) = 1
    /\ Len(h_calls[1].arrays) = 3
    /\ h_calls[1].buffer = ZeroBuffer(2)
    /\ random_state[0] = u64_MAX
    /\ h_calls[1].arrays[2].data[1].null
    /\ ~h_calls[1].arrays[1].data[1].null /\ ~h_calls[1].arrays[3].data[1].null
    /\ \A c \in 1..3 : h_calls[1].arrays[c].data[2] = [null |-> FALSE, val |-> 0]
    /\ h_out[1].ok

(***************************************************************************)
(* Two calls of create_hashes under one seed (SpecHashPair): the second     *)
(* batch is a run of rows of the first, as when the same rows arrive split  *)
(* into other batches; each call has its own buffer.                        *)
(***************************************************************************)
PairColumnCounts == {1, 2}

PairArrays ==
    UNION {[1..k -> HashColumns(n)] : k \in PairColumnCounts, n \in 1..MaxHashRows}

\* rows first..last of the batch
slice(arrays, first, last) ==
    [c \in 1..Len(arrays) |->
        [type |-> arrays[c].type, data |-> SubSeq(arrays[c].data, first, last)]]

Slices(arrays) ==
    {slice(arrays, first, last) :
        first \in 1..Len(arrays[1].data), last \in 1..Len(arrays[1].data)}
    \ {slice(arrays, 2, 1)}

InitHashPair ==
    /\ \E a \in PairArrays :
          \E b \in Slices(a),
             ba \in HashBuffers(MaxHashRows), bb \in HashBuffers(MaxHashRows) :
                h_calls = <<HashCall(a, ba), HashCall(b, bb)>>
    /\ InitHashRest

SpecHashPair == InitHashPair /\ [][NextHash]_vars

\* the column values of row i of a call
RowValues(n, i) == [c \in 1..Len(h_calls[n].arrays) |-> h_calls[n].arrays[c].data[i]]

HashRows(n) == 1..Len(h_calls[n].arrays[1].data)

Zeroed(n) == h_calls[n].buffer = ZeroBuffer(Len(h_calls[n].buffer))

\* C25 as stated: under one seed, rows with the same column values get the
\* same hash, whatever their position, the other rows, the batch they come in
\* and what the buffer held before the call.
C25_HashDependsOnRowOnly ==
    \A n1 \in 1..Len(h_out), n2 \in 1..Len(h_out) :
        \A i \in HashRows(n1), j \in HashRows(n2) :
            RowValues(n1, i) = RowValues(n2, j) => h_out[n1].v[i] = h_out[n2].v[j]

\* C25, amended: the same for the calls that start from a zeroed buffer.
C25_HashDependsOnRowOnlyFromZero ==
    \A n1 \in 1..Len(h_out), n2 \in 1..Len(h_out) :
        (Zeroed(n1) /\ Zeroed(n2)) =>
            \A i \in HashRows(n1), j \in HashRows(n2) :
                RowValues(n1, i) = RowValues(n2, j) => h_out[n1].v[i] = h_out[n2].v[j]

\* both calls from zeroed buffers; the second batch is the second row of the
\* first, a row of two columns with a null, now at position 0
C25_Witness ==
    /\ Len(h_out) = 2
    /\ Zeroed(1) /\ Zeroed(2)
    /\ Len(h_calls[1].arrays) = 2
    /\ h_calls[1].arrays[1].data = <<[null |-> FALSE, val |-> 0], [null |-> TRUE, val |-> 0]>>
    /\ h_calls[1].arrays[2].data = <<[null |-> FALSE, val |-> 0], [null |-> FALSE, val |-> 1]>>
    /\ h_calls[2].arrays = slice(h_calls[1].arrays, 2, 2)
    /\ h_out[2].v[1] = h_out[1].v[2]
    /\ h_out[2].v[1] # h_out[1].v[1]

(***************************************************************************)
(* The aggregator over an input without rows                               *)
(***************************************************************************)
OkItems == SelectSeq(a_out, LAMBDA it : it.kind # "none")
EmptyBatch == [kind |-> "batch", rows |-> <<>>]

\* C26: when every input item was a batch that was ingested with Ok and no
\* group has been created (the input had no batches, or only batches of zero
\* rows), the stream that has ended has emitted exactly one item before its
\* end-of-stream, a batch with zero rows; while the input has not ended it has
\* emitted nothing.
C26_EmptyInputGivesOneEmptyBatch ==
    (a_clean /\ group_states = <<>>) =>
        /\ ~in_ended => a_out = <<>>
        /\ a_phase = "done" =>
              /\ OkItems = <<EmptyBatch>>
              /\ a_out[1] = EmptyBatch
              /\ a_out[2] = NoneItem

C26_Witness ==
    /\ a_clean /\ group_states = <<>> /\ in_items = 2
    /\ a_phase = "done"
    /\ OkItems = <<EmptyBatch>>

(***************************************************************************)
(* HashJoinExec::try_new: the schema of the join's output                  *)
(***************************************************************************)
\* field names of the tests' tables: columns of one side only, and the join
\* columns, which the two sides may name alike
LeftOnlyNames  == {"a1", "c1"}
RightOnlyNames == {"a2", "c2"}
LeftKeyNames   == {"b1"}
RightKeyNames  == {"b1", "b2"}

\* the schemas of an input: its key column and some of its other columns, in
\* any order
RECURSIVE Perms(_)
Perms(S) ==
    IF S = {} THEN {<<>>}
    ELSE UNION {{<<x>> \o q : q \in Perms(S \ {x})} : x \in S}
SchemasOf(others, key) == UNION {Perms(T \cup {key}) : T \in SUBSET others}

\* Schema::index_of: the first field of that name, counted from 0; -1 for Err
index_of(schema, name) ==
    IF \E k \in 1..Len(schema) : schema[k] = name
    THEN (CHOOSE k \in 1..Len(schema) :
              schema[k] = name /\ \A j \in 1..(k - 1) : schema[j] # name) - 1
    ELSE -1

\* build_join_schema as the tests pin it down: the left fields, then the
\* right fields, for every join type; a join column named alike on both sides
\* is dropped from the right side, for a Right join from the left side
duplicate_keys(on) == {on[k][2] : k \in {j \in 1..Len(on) : on[j][1] = on[j][2]}}
build_join_schema_right_side_first(left, right, on, jt) ==
    IF jt = "Right"
    THEN right \o SelectSeq(left, LAMBDA f : f \notin duplicate_keys(on))
    ELSE left \o SelectSeq(right, LAMBDA f : f \notin duplicate_keys(on))
build_join_schema(left, right, on, jt) ==
    IF jt = "Right"
    THEN SelectSeq(left, LAMBDA f : f \notin duplicate_keys(on)) \o right
    ELSE left \o SelectSeq(right, LAMBDA f : f \notin duplicate_keys(on))

\* column_indices_from_schema: each output field is looked up by name in the
\* primary schema (the right one for a Right join), then in the secondary
column_indices_from_schema_left_first(schema, left, right, jt) ==
    LET lookup(name) ==
            IF index_of(left, name) >= 0
            THEN [ok |-> TRUE, is_left |-> TRUE, index |-> index_of(left, name)]
            ELSE IF index_of(right, name) >= 0
            THEN [ok |-> TRUE, is_left |-> FALSE, index |-> index_of(right, name)]
            ELSE [ok |-> FALSE, is_left |-> FALSE, index |-> 0]
    IN  IF \E k \in 1..Len(schema) : ~lookup(schema[k]).ok
        THEN [ok |-> FALSE, v |-> <<>>]
        ELSE [ok |-> TRUE,
              v  |-> [k \in 1..Len(schema) |->
                        [index |-> lookup(schema[k]).index,
                         is_left |-> lookup(schema[k]).is_left]]]
column_indices_from_schema(schema, left, right, jt) ==
    LET primary_is_left  == jt \in {"Inner", "Left", "Full"}
        primary_schema   == IF primary_is_left THEN left ELSE right
        secondary_schema == IF primary_is_left THEN right ELSE left
        lookup(name) ==
            IF index_of(primary_schema, name) >= 0
            THEN [ok |-> TRUE, is_primary |-> TRUE,
                  index |-> index_of(primary_schema, name)]
            ELSE IF index_of(secondary_schema, name) >= 0
            THEN [ok |-> TRUE, is_primary |-> FALSE,
                  index |-> index_of(secondary_schema, name)]
            ELSE [ok |-> FALSE, is_primary |-> FALSE, index |-> 0]
    IN  IF \E k \in 1..Len(schema) : ~lookup(schema[k]).ok
        THEN [ok |-> FALSE, v |-> <<>>]
        ELSE [ok |-> TRUE,
              v  |-> [k \in 1..Len(schema) |->
                        [index   |-> lookup(schema[k]).index,
                         is_left |-> \/ lookup(schema[k]).is_primary /\ primary_is_left
                                     \/ ~lookup(schema[k]).is_primary /\ ~primary_is_left]]]

InitSchema ==
    /\ \E lk \in LeftKeyNames, rk \in RightKeyNames, jt \in JoinTypes :
          \E l \in SchemasOf(LeftOnlyNames, lk), r \in SchemasOf(RightOnlyNames, rk) :
              try_new_args = [left |-> l, right |-> r, on |-> <<<<lk, rk>>>>,
                              join_type |-> jt]
    /\ schema_out = <<>>
    /\ PartsIdle
    /\ eq_left = <<>> /\ eq_right = <<>> /\ eq_args = <<0, 0>> /\ eq_out = "none"
    /\ h_calls = <<>> /\ h_out = <<>>
    /\ pad_is_null = FALSE
    /\ JoinIdle /\ ExecIdle /\ AggIdle

\* try_new builds the schema; execute computes the column indices from it
TryNew ==
    /\ schema_out = <<>>
    /\ LET a == try_new_args
           schema == build_join_schema(a.left, a.right, a.on, a.join_type)
       IN  schema_out' =
               [schema |-> schema,
                column_indices |->
                    column_indices_from_schema(schema, a.left, a.right, a.join_type)]
    /\ UNCHANGED <<eq_left, eq_right, eq_args, eq_out, h_calls, h_out, try_new_args,
                   partVars, pad_is_null, joinVars, execVars, aggVars>>

NextSchema == TryNew

SpecSchema == InitSchema /\ [][NextSchema]_vars

\* the positions of the output schema whose column comes from the left input,
\* and those whose column comes from the right input
LeftPositions ==
    {k \in 1..Len(schema_out.schema) : schema_out.column_indices.v[k].is_left}
RightPositions ==
    {k \in 1..Len(schema_out.schema) : ~schema_out.column_indices.v[k].is_left}

\* C27: in the output schema the left input's columns come before the right
\* input's columns for Inner, Left and Full joins, and the right input's columns
\* come before the left input's columns for Right joins.
C27_RightJoinPutsRightColumnsFirst ==
    schema_out # <<>> =>
        /\ schema_out.column_indices.ok
        /\ IF try_new_args.join_type = "Right"
           THEN \A r \in RightPositions, l \in LeftPositions : r < l
           ELSE \A l \in LeftPositions, r \in RightPositions : l < r

\* C27 as it holds: the left input's columns come before the right input's
\* columns for every join type; every field of both inputs is in the output
\* but a join column named alike on both sides, which is there once, taken
\* from the left input, for a Right join from the right input.
C27_LeftColumnsFirstForEveryJoinType ==
    schema_out # <<>> =>
        LET a   == try_new_args
            ci  == schema_out.column_indices
            key == a.on[1]
        IN  /\ ci.ok
            /\ \A l \in LeftPositions, r \in RightPositions : l < r
            /\ \A k \in 1..Len(schema_out.schema) :
                   schema_out.schema[k] =
                       (IF ci.v[k].is_left THEN a.left ELSE a.right)[ci.v[k].index + 1]
            /\ \A f \in Range(a.left) \cup Range(a.right) :
                   \E k \in 1..Len(schema_out.schema) : schema_out.schema[k] = f
            /\ key[1] = key[2] =>
                   /\ Cardinality({k \in 1..Len(schema_out.schema) :
                                       schema_out.schema[k] = key[1]}) = 1
                   /\ \A k \in 1..Len(schema_out.schema) :
                          schema_out.schema[k] = key[1] =>
                              (ci.v[k].is_left <=> a.join_type # "Right")

\* tests::join_right_one
C27_Witness ==
    /\ try_new_args = [left |-> <<"a1", "b1", "c1">>, right |-> <<"a2", "b1", "c2">>,
                       on |-> <<<<"b1", "b1">>>>, join_type |-> "Right"]
    /\ schema_out # <<>>
    /\ schema_out.schema = <<"a1", "c1", "a2", "b1", "c2">>
    /\ LeftPositions = {1, 2}

\* C35: every output field is mapped to (index, is_left) by its name: the
\* name is looked up in the left schema first for Inner, Left and Full joins
\* and in the right schema first for Right joins, in the other schema only
\* when it is absent there, and the lookup fails only for a name on neither
\* side; so a name that both sides have is read from the left input for
\* Inner, Left and Full and from the right input for Right.
C35_ColumnIndicesByName ==
    schema_out # <<>> =>
        LET a  == try_new_args
            ci == schema_out.column_indices
            first  == IF a.join_type = "Right" THEN a.right ELSE a.left
            second == IF a.join_type = "Right" THEN a.left ELSE a.right
            first_is_left == a.join_type # "Right"
        IN  /\ ci.ok <=> Range(schema_out.schema) \subseteq Range(a.left) \cup Range(a.right)
            /\ ci.ok => \A k \in 1..Len(schema_out.schema) :
                   LET name == schema_out.schema[k]
                       side == IF name \in Range(first) THEN first ELSE second
                   IN  /\ ci.v[k].is_left = (IF name \in Range(first)
                                             THEN first_is_left ELSE ~first_is_left)
                       /\ side[ci.v[k].index + 1] = name
                       /\ \A j \in 1..ci.v[k].index : side[j] # name
                       /\ name \in Range(a.left) \cap Range(a.right) =>
                              (ci.v[k].is_left <=> a.join_type # "Right")

\* a Right join whose key has the same name on both sides: the output's b1 is
\* the right input's second column
C35_Witness ==
    /\ try_new_args = [left |-> <<"b1", "a1">>, right |-> <<"c2", "b1">>,
                       on |-> <<<<"b1", "b1">>>>, join_type |-> "Right"]
    /\ schema_out # <<>>
    /\ schema_out.schema = <<"a1", "c2", "b1">>
    /\ schema_out.column_indices.v[3] = [index |-> 1, is_left |-> FALSE]
    /\ schema_out.column_indices.v[1] = [index |-> 1, is_left |-> TRUE]

(***************************************************************************)
(* SpecParts: CollectLeft, the streams execute returned to the partitions, *)
(* polled in any interleaving.  They share left_data; visited_left_side    *)
(* and is_exhausted are fields of each stream.                             *)
(***************************************************************************)
MaxPartRows  == 1   \* rows of the build side, and of a right batch
MaxPartItems == 1   \* batches the right input of a partition yields

\* the build side execute publishes for a left input of one batch
PartLeftData(batch, hf) ==
    [map   |-> build_hashmap(on_left, <<batch>>, 1, EmptyMap, 0, hf).v,
     batch |-> concat_batches(JoinSchema, <<batch>>)]

\* the state after execute(p) has returned for every partition p
InitParts ==
    /\ pad_is_null = FALSE
    /\ join_type \in JoinTypes
    /\ random_state \in {SingleBucket, SpreadHash}
    /\ jphase = "probe"
    /\ \E batch \in JoinBatches(MaxPartRows) :
          /\ left_batches = <<batch>>
          /\ left_data = PartLeftData(batch, random_state)
    /\ visited_left_side = <<>> /\ is_exhausted = FALSE
    /\ right_ended = FALSE /\ right_items = 0 /\ out = <<>>
    /\ c_pc = [p \in Parts |-> "probe"]
    /\ c_visited = [p \in Parts |->
                      IF join_type \in {"Left", "Full"}
                      THEN [k \in 1..num_rows(left_data.batch) |-> FALSE]
                      ELSE <<>>]
    /\ c_exhausted = [p \in Parts |-> FALSE]
    /\ c_items = [p \in Parts |-> 0]
    /\ c_out = [p \in Parts |-> <<>>]
    /\ eq_left = <<>> /\ eq_right = <<>> /\ eq_args = <<0, 0>> /\ eq_out = "none"
    /\ h_calls = <<>> /\ h_out = <<>>
    /\ SchemaIdle
    /\ ExecIdle /\ AggIdle

partFrame == <<eq_left, eq_right, eq_args, eq_out, h_calls, h_out, try_new_args,
               schema_out, pad_is_null, joinVars, execVars, aggVars>>

\* poll_next of partition p's stream, its right input yields Some(Ok(batch))
PartPollBatch(p) ==
    /\ c_pc[p] = "probe"
    /\ c_items[p] < MaxPartItems
    /\ \E batch \in JoinBatches(MaxPartRows) :
          LET result == build_join_indexes(left_data, batch, join_type,
                                           on_left, on_right, random_state)
          IN  IF ~result.ok
              THEN /\ c_pc' = [c_pc EXCEPT ![p] = "panicked"]   \* build_batch unwraps
                   /\ UNCHANGED <<c_visited, c_out>>
              ELSE /\ c_pc' = c_pc
                   /\ c_visited' =
                         IF join_type \in {"Left", "Full"}
                         THEN [c_visited EXCEPT ![p] =
                                 [k \in 1..Len(@) |->
                                    @[k] \/ \E q \in 1..Len(result.v) : result.v[q][1] = k - 1]]
                         ELSE c_visited
                   /\ c_out' = [c_out EXCEPT ![p] =
                                  Append(@, Item("batch", "probe", result.v, batch, "batch"))]
    /\ c_items' = [c_items EXCEPT ![p] = @ + 1]
    /\ UNCHANGED <<partFrame, c_exhausted>>

\* the items partition p's stream has answered its right input's None with
PartNoneCount(p) == Cardinality({k \in 1..Len(c_out[p]) : c_out[p][k].cause = "none"})

\* poll_next of partition p's stream, its right input yields None: the
\* `other` arm, on the stream's own visited_left_side and is_exhausted
PartPollEnd(p) ==
    /\ c_pc[p] = "probe"
    /\ PartNoneCount(p) < MaxEndPolls
    /\ IF join_type \in {"Left", "Full"} /\ ~c_exhausted[p]
       THEN /\ c_out' = [c_out EXCEPT ![p] =
                   Append(@, Item("batch", "unmatched",
                                  LET u == unmatched_indices(c_visited[p])
                                  IN  [k \in 1..Len(u) |-> <<u[k], NullIdx>>],
                                  <<>>, "none"))]
            /\ c_exhausted' = [c_exhausted EXCEPT ![p] = TRUE]
       ELSE /\ c_out' = [c_out EXCEPT ![p] =
                           Append(@, Item("none", "right", <<>>, <<>>, "none"))]
            /\ UNCHANGED c_exhausted
    /\ UNCHANGED <<partFrame, c_pc, c_visited, c_items>>

NextParts == \E p \in Parts : PartPollBatch(p) \/ PartPollEnd(p)

SpecParts == InitParts /\ [][NextParts]_vars

\* build row i is paired with a right row in some partition's output
MatchedSomewhere(i) ==
    \E p \in Parts : \E k \in 1..Len(c_out[p]) :
        /\ c_out[p][k].src = "probe"
        /\ \E q \in 1..Len(c_out[p][k].pairs) :
              c_out[p][k].pairs[q][1] = i /\ c_out[p][k].pairs[q][2] # NullIdx

\* the output rows, over all partitions, that hold build row i and nulls
UnmatchedRowsOf(i) ==
    UNION {UNION {{<<p, k, q>> : q \in {r \in 1..Len(c_out[p][k].pairs) :
                                           /\ c_out[p][k].src = "unmatched"
                                           /\ c_out[p][k].pairs[r] = <<i, NullIdx>>}} :
                      k \in 1..Len(c_out[p])} : p \in Parts}

\* C29: CollectLeft, Left or Full join, when every partition's stream has
\* returned end-of-stream: over the outputs of all partitions a build row
\* that no right row of any partition matched appears exactly once with null
\* right columns, and a build row matched in some partition does not appear
\* as unmatched at all.
C29_UnmatchedOnceOverAllPartitions ==
    (/\ join_type \in {"Left", "Full"}
     /\ \A p \in Parts : PartNoneCount(p) >= 2) =>
        \A i \in 0..(num_rows(left_data.batch) - 1) :
            Cardinality(UnmatchedRowsOf(i)) = IF MatchedSomewhere(i) THEN 0 ELSE 1

(***************************************************************************)
(* The scratch indices between calls of group_aggregate_batch              *)
(***************************************************************************)
\* C30: whenever group_aggregate_batch has returned, with Ok or with an
\* error, the scratch indices of every group are empty.
C30_ScratchIndicesEmptyAfterIngest ==
    a_phase # "panicked" =>
        \A k \in 1..Len(group_states) : group_states[k].indices = <<>>

(***************************************************************************)
(* The order of grant and mutation in group_aggregate_batch                *)
(***************************************************************************)
\* the groups without their scratch indices
GroupsKept(states) ==
    [k \in 1..Len(states) |-> <<states[k].group_by_values, states[k].aggregation_buffer>>]

\* C31: the grant precedes the mutation it pays for.  A call whose first
\* try_grow is denied has been granted nothing, so when a poll ends with an
\* error item the table, its capacity, the groups and their capacity are what
\* they were before the call (rows handled before the failing one can only
\* have been pushed into scratch vectors with spare room).
C31_GrantPrecedesMutation ==
    [][a_out' = Append(a_out, ErrItem) =>
          /\ map' = map
          /\ map_capacity' = map_capacity
          /\ gs_capacity' = gs_capacity
          /\ GroupsKept(group_states') = GroupsKept(group_states)]_vars

(***************************************************************************)
(* The gather index of group_aggregate_batch                               *)
(***************************************************************************)
\* batch_indices: the indices of the groups of groups_with_rows, one group
\* after the other (the offsets are where one group's slice ends)
RECURSIVE batch_indices(_, _)
batch_indices(st, k) ==
    IF k > Len(st.groups_with_rows) THEN <<>>
    ELSE st.group_states[st.groups_with_rows[k] + 1].indices \o batch_indices(st, k + 1)

\* the state of the call when the row loop over `batch` has ended
AfterRowLoop(batch) == rows_loop(AggSt("ok"), evaluate_group_by(batch), 0, TRUE, FALSE)

\* C32: for every batch of n rows whose row loop succeeds on the table as it
\* is, groups_with_rows holds no group twice, the gather index is a
\* permutation of 0..n-1, and every row lies in the slice of the group whose
\* key is the row's key.
C32_GatherIndexIsPermutation ==
    a_phase = "running" =>
        \A batch \in AggBatches :
            LET st == AfterRowLoop(batch)
                gather == batch_indices(st, 1)
                keys == evaluate_group_by(batch)
            IN  st.status = "ok" =>
                  /\ \A j, k \in 1..Len(st.groups_with_rows) :
                         st.groups_with_rows[j] = st.groups_with_rows[k] => j = k
                  /\ Len(gather) = Len(batch)
                  /\ Range(gather) = 0..(Len(batch) - 1)
                  /\ \A k \in 1..Len(st.groups_with_rows) :
                         LET gs == st.group_states[st.groups_with_rows[k] + 1]
                         IN  \A j \in 1..Len(gs.indices) :
                                 /\ gs.indices[j] < Len(batch)
                                 /\ keys[gs.indices[j] + 1] = gs.group_by_values

(***************************************************************************)
(* The index the build phase leaves                                        *)
(***************************************************************************)
\* the build phase on its own: the left input's batches, its error, its end
MaxIndexRows == 2   \* rows the left input yields in all (SpecBuild)

BuildLeftBatch ==
    /\ LeftBatchFrom(JoinBatches(MaxLeftRows))
    /\ rows_total(left_batches', 1) <= MaxIndexRows

NextBuild == BuildLeftBatch \/ LeftErr \/ LeftEnd

SpecBuild == InitPoll /\ [][NextBuild]_vars

\* the rows of the left batches before batch k
RowsBefore(k) == rows_total(SubSeq(left_batches, 1, k - 1), 1)

\* the bucket of the index that holds the absolute row index i
BucketsOf(i) == {h \in DOMAIN left_data.map : i \in Range(left_data.map[h])}

\* the join key of row i of the concatenated build batch
BuildKey(i) == [c \in 1..Len(on_left) |-> left_data.batch[on_left[c]].data[i + 1]]

\* C33: after the build phase every absolute row index 0..N-1 of the
\* concatenated build batch is in exactly one bucket, once; row r of batch k
\* is stored as (rows of the batches before k) + r, which is the place of that
\* row in the concatenated batch; and build rows with equal join keys share
\* their bucket.
C33_IndexHoldsEveryBuildRowOnce ==
    jphase = "probe" =>
        /\ IndexComplete(left_data)
        /\ num_rows(left_data.batch) = rows_total(left_batches, 1)
        /\ \A k \in 1..Len(left_batches) :
              \A r \in 0..(num_rows(left_batches[k]) - 1) :
                  LET hashes == create_hashes(random_state, keys_of(on_left, left_batches[k]),
                                              ZeroBuffer(num_rows(left_batches[k]))).v
                  IN  /\ BucketsOf(RowsBefore(k) + r) = {hashes[r + 1]}
                      /\ BuildKey(RowsBefore(k) + r) =
                             [c \in 1..Len(on_left) |-> left_batches[k][on_left[c]].data[r + 1]]
        /\ \A i, j \in 0..(num_rows(left_data.batch) - 1) :
              BuildKey(i) = BuildKey(j) => BucketsOf(i) = BucketsOf(j)

\* two batches of one row each with the same key: one bucket holds 0 and 1
C33_Witness ==
    /\ jphase = "probe"
    /\ Len(left_batches) = 2
    /\ \A k \in 1..2 : num_rows(left_batches[k]) = 1
    /\ BuildKey(0) = BuildKey(1) /\ ~BuildKey(0)[1].null
    /\ \E h \in DOMAIN left_data.map : left_data.map[h] = <<0, 1>>

(***************************************************************************)
(* The pairs of a probed batch, Right and Full joins                       *)
(***************************************************************************)
\* the hashes build_join_indexes computes for the rows of a right batch
RightHashes(batch) ==
    create_hashes(random_state, keys_of(on_right, batch), ZeroBuffer(num_rows(batch))).v

\* what the table of the Right | Full arm prescribes for right row r: a pair
\* per candidate of its bucket, (i, r) when the keys are equal and (null, r)
\* when they are not, and one (null, r) when there is no bucket
PrescribedPairs(batch, r) ==
    LET h == RightHashes(batch)[r + 1]
    IN  IF h \in DOMAIN left_data.map
        THEN [c \in 1..Len(left_data.map[h]) |->
                 IF KeysEqual(left_data.batch, left_data.map[h][c], batch, r)
                 THEN <<left_data.map[h][c], r>>
                 ELSE <<NullIdx, r>>]
        ELSE <<<<NullIdx, r>>>>

\* C34: Right and Full joins - the pairs of a probed batch hold, for every
\* right row r, exactly the pairs prescribed for it: one per candidate of its
\* bucket, (i, r) when ColumnEqual holds and (null, r) when it does not, and
\* the single pair (null, r) when the bucket is missing.
C34_RightFullPairPerCandidate ==
    \A k \in ProbeItems :
        join_type \in {"Right", "Full"} =>
            \A r \in 0..(num_rows(out[k].batch) - 1) :
                /\ \A p \in Range(PrescribedPairs(out[k].batch, r)) \cup
                            {q \in Range(out[k].pairs) : q[2] = r} :
                       Count(out[k].pairs, p) = Count(PrescribedPairs(out[k].batch, r), p)

(***************************************************************************)
(* Paging out a table whose size is a multiple of batch_size               *)
(***************************************************************************)
\* C36: in a run without error items, when the table has groups every
\* emitted batch has at least one row, and once the stream has ended the item
\* right before the first end-of-stream is the batch that ends with the last
\* group.
C36_NoEmptyBatchWhenGroupsExist ==
    (a_clean /\ group_states # <<>>) =>
        /\ \A k \in 1..Len(a_out) : a_out[k].kind = "batch" => Len(a_out[k].rows) >= 1
        /\ a_phase = "done" =>
              LET last == OkItems[Len(OkItems)]
              IN  /\ last.kind = "batch" /\ Len(last.rows) >= 1
                  /\ last.rows[Len(last.rows)][1] =
                         group_states[Len(group_states)].group_by_values

(***************************************************************************)
(* One output batch per right batch, pairs in right-row and bucket order   *)
(***************************************************************************)
\* the place of build row i in its bucket
PlaceInBucket(i) ==
    LET h == CHOOSE x \in DOMAIN left_data.map : i \in Range(left_data.map[x])
    IN  CHOOSE c \in 1..Len(left_data.map[h]) : left_data.map[h][c] = i

\* C37: every item the right input has yielded is answered by one item of the
\* output, a batch for a batch, in the order of the right input; within an
\* output batch the pairs are in ascending right-row order, and the build rows
\* paired with one right row are in the order of their bucket.
C37_OneBatchPerRightBatchInOrder ==
    /\ Cardinality({k \in 1..Len(out) : out[k].cause \in {"batch", "err"}}) = right_items
    /\ \A k \in 1..Len(out) : out[k].cause = "batch" => out[k].kind = "batch"
    /\ \A k \in ProbeItems :
          \A q \in 1..(Len(out[k].pairs) - 1) :
              LET a == out[k].pairs[q]
                  b == out[k].pairs[q + 1]
              IN  /\ a[2] <= b[2]
                  /\ (a[2] = b[2] /\ a[1] # NullIdx /\ b[1] # NullIdx) =>
                         PlaceInBucket(a[1]) < PlaceInBucket(b[1])

(***************************************************************************)
(* group_states is append-only under group_aggregate_batch                 *)
(***************************************************************************)
\* C39: whatever batch the stream ingests next, and whether or not its grants
\* are given, the call keeps every existing group at its position with its
\* key bytes, and keeps the state bytes of every group whose key no row of
\* the batch has; every step of the stream leaves the groups it had before in
\* place.
C39_IngestOnlyAppends ==
    /\ [](a_phase = "running" =>
            \A batch \in AggBatches, grant \in BOOLEAN, oob_first \in BOOLEAN :
                LET st == group_aggregate_batch(batch, grant, oob_first)
                    keys == Range(evaluate_group_by(batch))
                IN  /\ Len(st.group_states) >= Len(group_states)
                    /\ \A k \in 1..Len(group_states) :
                          /\ st.group_states[k].group_by_values =
                                 group_states[k].group_by_values
                          /\ group_states[k].group_by_values \notin keys =>
                                 st.group_states[k].aggregation_buffer =
                                     group_states[k].aggregation_buffer)
    /\ [][/\ Len(group_states') >= Len(group_states)
          /\ \A k \in 1..Len(group_states) :
                group_states'[k].group_by_values = group_states[k].group_by_values]_vars

\* two batches of three rows in all were ingested; the first group has one
\* row and the second group two, so the second batch had no row of the first
\* group
C39_Witness ==
    /\ a_phase = "running" /\ a_clean /\ in_items = 2
    /\ Len(group_states) = 2
    /\ group_states[1].aggregation_buffer = 1
    /\ group_states[2].aggregation_buffer = 2

====
